---- MODULE Spec2Model ----
(***************************************************************************)
(* Model of AudioAnalyzer (src/audio/analyzer.js): the log-spaced band     *)
(* extractor getLogBands with its per-bandCount buffers.                   *)
(*                                                                         *)
(* JavaScript numbers are modelled in fixed point: a finite number x is    *)
(* the integer x * Unit, and the three non-finite doubles are the integers *)
(* NaN, PInf and NInf, which lie outside the range of every finite value   *)
(* the model computes.  Frequencies are held in milli-Hertz.               *)
(***************************************************************************)
EXTENDS Integers, Sequences, FiniteSets, TLC

(***************************************************************************)
(* Fixed-point arithmetic                                                  *)
(***************************************************************************)
Unit == 10^6
Kilo == 10^3
NaN  == 0 - 2000000001
PInf == 2000000002
NInf == 0 - 2000000002

IsNaN(x)    == x = NaN
IsFinite(x) == x # NaN /\ x # PInf /\ x # NInf
Abs(x)      == IF x < 0 THEN 0 - x ELSE x
Max2(a, b)  == IF a > b THEN a ELSE b
Min2(a, b)  == IF a < b THEN a ELSE b

\* a*b/Unit for a, b >= 0, without leaving the 32-bit range
MulPos(a, b) ==
    (a \div Kilo) * (b \div Kilo)
    + ((a \div Kilo) * (b % Kilo) + (a % Kilo) * (b \div Kilo)
       + ((a % Kilo) * (b % Kilo)) \div Kilo) \div Kilo

\* a*b/Unit, rounded toward zero
Mul(a, b) ==
    (IF (a < 0) = (b < 0) THEN 1 ELSE 0 - 1) * MulPos(Abs(a), Abs(b))

\* a*Unit/b for a >= 0, b > 0; a divisor above 2 is first scaled down
\* together with the dividend
DivPos(a, b) ==
    LET s  == CHOOSE i \in 0..30 : b \div 2^i <= 2 * Unit
        a0 == a \div 2^s
        b0 == b \div 2^s
        r0 == a0 % b0
        r1 == (r0 * Kilo) % b0
    IN  (a0 \div b0) * Unit + ((r0 * Kilo) \div b0) * Kilo + (r1 * Kilo) \div b0

\* a*Unit/b, rounded toward zero, b # 0
Div(a, b) ==
    (IF (a < 0) = (b < 0) THEN 1 ELSE 0 - 1) * DivPos(Abs(a), Abs(b))

LN2 == 693147

\* the binary exponent k of num/den: 2^k <= num/den < 2^(k+1)
Log2Floor(num, den) ==
    IF num >= den
    THEN LET q == num \div den
         IN  CHOOSE k \in 0..30 : q \div 2^k = 1
    ELSE LET c == (den - 1) \div num + 1
         IN  0 - (CHOOSE k \in 0..30 : 2^k >= c)

\* z * (1 + s/3 + s^2/5 + s^3/7 + s^4/9 + s^5/11), s = z^2
AtanhSeries(z, s) ==
    MulPos(z, Unit + MulPos(s, Unit \div 3 + MulPos(s, Unit \div 5
        + MulPos(s, Unit \div 7 + MulPos(s, Unit \div 9
        + MulPos(s, Unit \div 11))))))

\* atanh(z) for 0 <= z < 1/3, by its series
Atanh(z) == AtanhSeries(z, MulPos(z, z))

\* ln(num/den) for integers num, den > 0: with num/den = (m/d) * 2^k and
\* d <= m < 2d, ln(m/d) = 2 atanh((m-d)/(m+d))
LnRatio(num, den) ==
    LET k == Log2Floor(num, den)
        m == IF k < 0 THEN num * 2^(0 - k) ELSE num
        d == IF k > 0 THEN den * 2^k ELSE den
    IN  k * LN2 + 2 * Atanh(DivPos(m - d, m + d))

\* e^r for 0 <= r < LN2, by its Taylor series
ExpSeries(r) ==
    Unit + MulPos(r, Unit + MulPos(r, Unit + MulPos(r, Unit + MulPos(r,
    Unit + MulPos(r, Unit + MulPos(r, Unit + MulPos(r, Unit + MulPos(r,
    Unit + MulPos(r, Unit + r \div 10) \div 9) \div 8) \div 7) \div 6)
    \div 5) \div 4) \div 3) \div 2)

\* e * 2^k
Scale2(e, k) ==
    IF k >= 0 THEN e * 2^k
    ELSE IF k < 0 - 30 THEN 0
    ELSE e \div 2^(0 - k)

\* e^y for a finite y: y = k*LN2 + r with 0 <= r < LN2
ExpFinite(y) == Scale2(ExpSeries(y % LN2), y \div LN2)

(***************************************************************************)
(* IEEE-754 behaviour of the operators getLogBands uses                    *)
(***************************************************************************)
FNeg(a) == IF IsNaN(a) THEN NaN ELSE 0 - a

FAdd(a, b) ==
    IF IsNaN(a) \/ IsNaN(b) THEN NaN
    ELSE IF ~IsFinite(a) THEN (IF ~IsFinite(b) /\ a # b THEN NaN ELSE a)
    ELSE IF ~IsFinite(b) THEN b
    ELSE a + b

FSub(a, b) == FAdd(a, FNeg(b))

FMul(a, b) ==
    IF IsNaN(a) \/ IsNaN(b) THEN NaN
    ELSE IF ~IsFinite(a) \/ ~IsFinite(b)
         THEN (IF a = 0 \/ b = 0 THEN NaN
               ELSE IF (a < 0) = (b < 0) THEN PInf ELSE NInf)
    ELSE Mul(a, b)

FDiv(a, b) ==
    IF IsNaN(a) \/ IsNaN(b) THEN NaN
    ELSE IF ~IsFinite(a)
         THEN (IF ~IsFinite(b) THEN NaN
               ELSE IF (a < 0) = (b < 0) THEN PInf ELSE NInf)
    ELSE IF ~IsFinite(b) THEN 0
    ELSE IF b = 0
         THEN (IF a = 0 THEN NaN ELSE IF a > 0 THEN PInf ELSE NInf)
    ELSE Div(a, b)

\* a > b; every comparison with NaN is false
FGt(a, b) == ~IsNaN(a) /\ ~IsNaN(b) /\ a > b

\* Math.max and Math.min: NaN if either argument is NaN
MathMax(a, b) == IF IsNaN(a) \/ IsNaN(b) THEN NaN ELSE Max2(a, b)
MathMin(a, b) == IF IsNaN(a) \/ IsNaN(b) THEN NaN ELSE Min2(a, b)

\* Math.log of a frequency given in whole Hz
MathLog(hz) ==
    IF hz > 0 THEN LnRatio(hz, 1)
    ELSE IF hz = 0 THEN NInf
    ELSE NaN

\* Math.exp
MathExp(y) ==
    IF IsNaN(y) THEN NaN
    ELSE IF y = PInf THEN PInf
    ELSE IF y = NInf THEN 0
    ELSE ExpFinite(y)

\* Math.pow(x, y) for a finite exponent y
MathPow(x, y) ==
    IF y = 0 THEN Unit
    ELSE IF IsNaN(x) THEN NaN
    ELSE IF y = Unit THEN x
    ELSE IF x = PInf THEN (IF y > 0 THEN PInf ELSE 0)
    ELSE IF x = NInf
         THEN (IF y < 0 THEN 0
               ELSE IF y % (2 * Unit) = Unit THEN NInf ELSE PInf)
    ELSE IF x = 0 THEN (IF y > 0 THEN 0 ELSE PInf)
    ELSE IF x < 0 /\ y % Unit # 0 THEN NaN
    ELSE (IF x < 0 /\ y % (2 * Unit) # 0 THEN 0 - 1 ELSE 1)
         * ExpFinite(Mul(y, LnRatio(Abs(x), Unit)))

(***************************************************************************)
(* getLogBands: the per-band computation                                    *)
(***************************************************************************)
\* analyser.fftSize set by init(), and analyser.frequencyBinCount
fftSize  == 4096
binCount == fftSize \div 2

\* the defaults of the destructured params argument
Defaults ==
    [freqMin |-> 80, freqMax |-> 18000, tilt |-> 350000, bassTame |-> 500000,
     bassTameRange |-> 150000, gain |-> 1500000, compress |-> 800000,
     attack |-> 800000, release |-> 150000, smoothing |-> 300000,
     noiseFloor |-> 15000]

\* const { freqMin = 80, ... } = params
Destructure(params) ==
    [f \in DOMAIN Defaults |->
        IF f \in DOMAIN params THEN params[f] ELSE Defaults[f]]

\* floatArray[bin] of a frame that is base dB everywhere except peakDb at peakBin
FrameAt(frame, bin) == IF bin = frame.peakBin THEN frame.peakDb ELSE frame.base

\* Math.floor(freqMin / hzPerBin) and Math.ceil(freqMax / hzPerBin),
\* hzPerBin = sampleRate / fftSize, rate the sample rate
FloorBin(hz, rate) == (hz * fftSize) \div rate
CeilBin(hz, rate)  == 0 - ((0 - hz * fftSize) \div rate)

minBin(p, rate) == Max2(1, FloorBin(p.freqMin, rate))
maxBin(p, rate) == Min2(binCount - 1, CeilBin(p.freqMax, rate))

lnMin(p)   == MathLog(p.freqMin)
lnMax(p)   == MathLog(p.freqMax)
lnRange(p) == FSub(lnMax(p), lnMin(p))

\* t counted down from the last band
BandTReversed(j, bandCount) == Div(bandCount - 1 - j, Max2(1, bandCount - 1))

\* t = j / Math.max(1, bandCount - 1)
BandT(j, bandCount) == Div(j, Max2(1, bandCount - 1))

\* fTarget = Math.exp(lnMin + t * lnRange), in milli-Hertz
LnKilo == LnRatio(Kilo, 1)
fTarget(j, bandCount, p) ==
    MathExp(FSub(FAdd(lnMin(p), FMul(BandT(j, bandCount), lnRange(p))), LnKilo))

\* centerBin = Math.round(fTarget / hzPerBin), fTarget taken to 0.1 Hz
centerBin(fT, rate) ==
    IF ~IsFinite(fT) THEN fT
    ELSE (2 * (fT \div 100) * fftSize + 10 * rate) \div (20 * rate)

\* windowSize = Math.max(1, Math.floor(3 - t * 2))
windowSize(t) == Max2(1, (3 * Unit - 2 * t) \div Unit)

\* the conversion without the floor at -80 dB
LinearNoFloor(db) ==
    IF IsNaN(db) THEN NaN
    ELSE IF db = NInf THEN 0
    ELSE MathPow(10 * Unit, (db * Unit) \div 20)

\* linear = Math.pow(10, Math.max(db, -80) / 20)
Linear(db) ==
    LET m == MathMax(db, 0 - 80)
    IN  IF IsNaN(m) THEN NaN
        ELSE MathPow(10 * Unit, (m * Unit) \div 20)

\* a window that leaves its centre bin out
WindowBinsHollow(w, cb, lo, hi) ==
    IF IsFinite(cb)
    THEN {bin \in (cb - w)..(cb + w) : bin >= lo /\ bin <= hi /\ bin # cb}
    ELSE {}

\* the bins the loop over k = -windowSize .. windowSize adds up
WindowBins(w, cb, lo, hi) ==
    IF IsFinite(cb)
    THEN {bin \in (cb - w)..(cb + w) : bin >= lo /\ bin <= hi}
    ELSE {}

\* the bins band j averages
BandWindow(j, bandCount, p, rate) ==
    WindowBins(windowSize(BandT(j, bandCount)),
               centerBin(fTarget(j, bandCount, p), rate),
               minBin(p, rate), maxBin(p, rate))

\* linear of every bin of the window
WindowTerms(bins, frame) == [bin \in bins |-> Linear(FrameAt(frame, bin))]

\* what the pass for one k adds to energy
WindowTerm(lin, bin) == IF bin \in DOMAIN lin THEN lin[bin] ELSE 0

\* energy after the loop: windowSize is at most 3, so k ranges over -3 .. 3
WindowSum(cb, lin) ==
    IF DOMAIN lin = {} THEN 0
    ELSE FAdd(FAdd(FAdd(FAdd(FAdd(FAdd(
            WindowTerm(lin, cb - 3), WindowTerm(lin, cb - 2)),
            WindowTerm(lin, cb - 1)), WindowTerm(lin, cb)),
            WindowTerm(lin, cb + 1)), WindowTerm(lin, cb + 2)),
            WindowTerm(lin, cb + 3))

\* the sum of the window left undivided
WindowMeanSum(energy, count) == energy

\* if (count > 0) energy /= count
WindowMean(energy, count) ==
    IF count > 0 /\ IsFinite(energy) THEN energy \div count ELSE energy

WindowEnergy(j, bandCount, p, frame, rate) ==
    WindowMean(WindowSum(centerBin(fTarget(j, bandCount, p), rate),
                         WindowTerms(BandWindow(j, bandCount, p, rate), frame)),
               Cardinality(BandWindow(j, bandCount, p, rate)))

\* fTarget / freqMin, fTarget in milli-Hertz and freqMin in Hertz
RatioToMin(fT, hz) ==
    IF IsNaN(fT) THEN NaN
    ELSE IF ~IsFinite(fT)
         THEN (IF (fT < 0) = (hz < 0) THEN PInf ELSE NInf)
    ELSE IF hz = 0
         THEN (IF fT = 0 THEN NaN ELSE IF fT > 0 THEN PInf ELSE NInf)
    ELSE LET a == Abs(hz)
             q == (fT \div a) * Kilo + ((fT % a) * Kilo) \div a
         IN  IF hz > 0 THEN q ELSE 0 - q

\* energy *= Math.pow(fTarget / freqMin, tilt)
Tilt(energy, fT, p) == FMul(energy, MathPow(RatioToMin(fT, p.freqMin), p.tilt))

\* every band tamed as band 0 is, whatever its position
TameEvery(energy, bandPos, p) ==
    MathPow(energy, Unit + Mul(p.bassTame, 800000))

\* bass taming of the bands with bandPos < bassTameRange
Tame(energy, bandPos, p) ==
    IF bandPos < p.bassTameRange
    THEN LET tameAmount == Unit - Div(bandPos, p.bassTameRange)
             tameGamma  == Unit + Mul(Mul(tameAmount, p.bassTame), 800000)
         IN  MathPow(energy, tameGamma)
    ELSE energy

\* the gain applied, the noise floor never subtracted
GainFloorNoFloor(energy, p) == MathMax(0, FMul(energy, p.gain))

\* energy *= gain; energy = Math.max(0, energy - noiseFloor)
GainFloor(energy, p) == MathMax(0, FSub(FMul(energy, p.gain), p.noiseFloor))

\* if (compress !== 1.0) energy = Math.pow(energy, compress)
Compress(energy, p) ==
    IF p.compress # Unit THEN MathPow(energy, p.compress) ELSE energy

\* a hard knee: everything above 0.8 cut to 0.8
LimiterHard(energy) == MathMin(energy, 800000)

\* soft limiter above 0.8
Limiter(energy) ==
    IF FGt(energy, 800000)
    THEN LET over == FSub(energy, 800000)
         IN  FAdd(800000, FDiv(over, FAdd(Unit, FMul(over, 2 * Unit))))
    ELSE energy

\* the limiter's result stored without the final clamp
ClampOff(energy) == energy

\* energy = Math.min(1.0, energy)
Clamp(energy) == MathMin(Unit, energy)

\* the value stored in raw[j]
RawBand(j, bandCount, p, frame, rate) ==
    Clamp(Limiter(Compress(GainFloor(Tame(Tilt(
        WindowEnergy(j, bandCount, p, frame, rate),
        fTarget(j, bandCount, p), p), BandT(j, bandCount), p), p), p)))

\* attack and release exchanged: slow rise, fast fall
EnvelopeSwapped(raw, peak, p) ==
    IF FGt(raw, peak) THEN FAdd(peak, FMul(FSub(raw, peak), p.release))
    ELSE FAdd(peak, FMul(FSub(raw, peak), p.attack))

\* one coefficient for both directions: the attack, rising or falling
EnvelopeAttackOnly(raw, peak, p) ==
    FAdd(peak, FMul(FSub(raw, peak), p.attack))

\* the step taken one and a bit times over: coefficient 1 + attack or release
EnvelopeOvershoot(raw, peak, p) ==
    IF FGt(raw, peak)
    THEN FAdd(peak, FMul(FSub(raw, peak), Unit + p.attack))
    ELSE FAdd(peak, FMul(FSub(raw, peak), Unit + p.release))

\* the attack/release step of peaks[j]
Envelope(raw, peak, p) ==
    IF FGt(raw, peak) THEN FAdd(peak, FMul(FSub(raw, peak), p.attack))
    ELSE FAdd(peak, FMul(FSub(raw, peak), p.release))

\* the smoothing factor with the wrong sign: 1 + smoothing
SmoothOvershoot(peak, smoothed, p) ==
    FAdd(smoothed, FMul(FSub(peak, smoothed), Unit + p.smoothing))

\* the smoothing stage driven by the attack coefficient
SmoothByAttack(peak, smoothed, p) ==
    FAdd(smoothed, FMul(FSub(peak, smoothed), p.attack))

\* the smoothing stage left out: smoothed[j] stays where it is
SmoothFrozen(peak, smoothed, p) == smoothed

\* smoothed[j] += (peaks[j] - smoothed[j]) * (1 - smoothing)
Smooth(peak, smoothed, p) ==
    FAdd(smoothed, FMul(FSub(peak, smoothed), Unit - p.smoothing))

(***************************************************************************)
(* The AudioAnalyzer instance                                               *)
(***************************************************************************)
VARIABLES
    analyser,         \* this.analyser: 0 is null, n > 0 the n-th AnalyserNode
    connected,        \* the AnalyserNodes a source has been connected to
    pending,          \* init('microphone') calls suspended in getUserMedia
    isInitialized,    \* this.isInitialized
    sampleRate,       \* this.sampleRate
    floatArray,       \* this.floatArray: the spectrum read last (len 0 is null)
    _rawBands,        \* Map bandCount -> buffer
    _smoothedBands,   \* Map bandCount -> buffer
    _peakBands,       \* Map bandCount -> buffer
    heap,             \* the Float32Arrays allocated so far, by buffer number
    call,             \* the operation performed last and its arguments
    result,           \* how it completed: the buffer returned, or a throw
    returned,         \* <<bandCount, buffer>> of every vector handed to a caller
    steps,            \* number of getLogBands calls and init calls made
    band,             \* one pass of the loop over j: its locals and position
    source,           \* what the audio source plays, and for how many calls
    app,              \* the VisualizerApp shell and the frame it is drawing
    particles         \* a ParticleSystem: its arrays and particleCount

vars == <<analyser, connected, pending, isInitialized, sampleRate, floatArray,
          _rawBands, _smoothedBands, _peakBands, heap, call, result,
          returned, steps, band, source, app, particles>>

\* what the AudioAnalyzer never touches
outside == <<band, source, app, particles>>

MaxCalls == 3
MaxInits == 1

\* inputs
BandCounts  == {0 - 1, 0, 2, 4}
SampleRates == {44100, 48000}
Plain       == [gain |-> 1500000]
Scenario    == [freqMin |-> 100, freqMax |-> 10000, tilt |-> 0, bassTame |-> 0]
ZeroMin     == [freqMin |-> 0]
Inverted    == [freqMin |-> 200, freqMax |-> 100]
ParamSets   == {Plain, Scenario, ZeroMin, Inverted}
Hot         == [gain |-> 10000000]
StepCount   == 2

NullArray == [len |-> 0, base |-> 0, peakBin |-> 0 - 1, peakDb |-> 0]
NewArray  == [len |-> binCount, base |-> 0, peakBin |-> 0 - 1, peakDb |-> 0]
Silence   == [len |-> binCount, base |-> NInf, peakBin |-> 0 - 1, peakDb |-> NInf]
Tone      == [len |-> binCount, base |-> 0 - 80, peakBin |-> 93, peakDb |-> 0]
Loud      == [len |-> binCount, base |-> 0, peakBin |-> 0 - 1, peakDb |-> 0]
Soft      == [len |-> binCount, base |-> 0 - 20, peakBin |-> 0 - 1, peakDb |-> 0 - 20]
Frames    == {Tone, Loud, Soft}
Low       == [len |-> binCount, base |-> 0 - 80, peakBin |-> 9, peakDb |-> 0]

NoBand   == [pc |-> "none"]
NoSource == [phase |-> "any"]
NoApp    == [pc |-> "none"]
NoParticles == [pc |-> "none"]
NoCall   == [op |-> "new", bandCount |-> 0, params |-> Plain, ready |-> FALSE]
NoResult == [kind |-> "none", buf |-> 0]

\* an array allocated one element too long
ZerosLong(n) == [i \in 1..(n + 1) |-> 0]

\* new Float32Array(n), n >= 0
Zeros(n) == [i \in 1..n |-> 0]

Init ==
    /\ analyser = 0
    /\ connected = {}
    /\ pending = 0
    /\ isInitialized = FALSE
    /\ sampleRate = 44100
    /\ floatArray = NullArray
    /\ _rawBands = <<>>
    /\ _smoothedBands = <<>>
    /\ _peakBands = <<>>
    /\ heap = <<>>
    /\ call = NoCall
    /\ result = NoResult
    /\ returned = {}
    /\ steps = [calls |-> 0, inits |-> 0]
    /\ band = NoBand
    /\ particles = NoParticles
    /\ source = NoSource
    /\ app = NoApp

\* init(): the statements up to the choice of the audio source
InitStatements(sr) ==
    /\ steps' = [steps EXCEPT !.inits = @ + 1]
    /\ sampleRate' = sr
    /\ analyser' = steps.inits + 1
    /\ floatArray' = NewArray
    /\ UNCHANGED <<_rawBands, _smoothedBands, _peakBands, heap, returned>>

InitPrefix(sr) ==
    /\ steps.inits < MaxInits
    /\ InitStatements(sr)

\* the HTMLAudioElement branch and the two statements after it
ElementBranch ==
    /\ connected' = connected \cup {analyser'}
    /\ isInitialized' = TRUE
    /\ call' = [NoCall EXCEPT !.op = "init"]
    /\ result' = NoResult
    /\ UNCHANGED pending
    /\ UNCHANGED outside

\* init(audioElement): runs to completion
InitAudioElement(sr) ==
    /\ InitPrefix(sr)
    /\ ElementBranch

\* the microphone branch up to await getUserMedia
MicrophoneBranch ==
    /\ pending' = pending + 1
    /\ call' = [NoCall EXCEPT !.op = "init"]
    /\ result' = NoResult
    /\ UNCHANGED <<connected, isInitialized>>
    /\ UNCHANGED outside

\* init('microphone'): suspends at await getUserMedia
InitMicrophone(sr) ==
    /\ InitPrefix(sr)
    /\ MicrophoneBranch

\* getUserMedia resolves: the rest of init('microphone')
MicGranted ==
    /\ pending > 0
    /\ pending' = pending - 1
    /\ connected' = connected \cup {analyser}
    /\ isInitialized' = TRUE
    /\ call' = [NoCall EXCEPT !.op = "granted"]
    /\ result' = NoResult
    /\ UNCHANGED <<analyser, sampleRate, floatArray, _rawBands, _smoothedBands,
                   _peakBands, heap, returned, steps>>
    /\ UNCHANGED outside

\* getUserMedia rejects: init('microphone') throws
MicDenied ==
    /\ pending > 0
    /\ pending' = pending - 1
    /\ call' = [NoCall EXCEPT !.op = "denied"]
    /\ result' = [kind |-> "throw", buf |-> 0]
    /\ UNCHANGED <<analyser, connected, isInitialized, sampleRate, floatArray,
                   _rawBands, _smoothedBands, _peakBands, heap, returned, steps>>
    /\ UNCHANGED outside

\* the three Maps and the arrays they refer to
Buffers ==
    [raw |-> _rawBands, smoothed |-> _smoothedBands, peaks |-> _peakBands,
     heap |-> heap]

\* a one-entry cache: the buffers of a new bandCount replace all the others
EnsureBuffersSingle(m, bandCount) ==
    IF bandCount \in DOMAIN m.raw THEN m
    ELSE LET n == Len(m.heap)
         IN  [raw      |-> (bandCount :> n + 1),
              smoothed |-> (bandCount :> n + 2),
              peaks    |-> (bandCount :> n + 3),
              heap     |-> m.heap \o <<Zeros(bandCount), Zeros(bandCount),
                                       Zeros(bandCount)>>]

\* no has() test: every call allocates the three buffers anew
EnsureBuffersAlways(m, bandCount) ==
    LET n == Len(m.heap)
    IN  [raw      |-> (bandCount :> n + 1) @@ m.raw,
         smoothed |-> (bandCount :> n + 2) @@ m.smoothed,
         peaks    |-> (bandCount :> n + 3) @@ m.peaks,
         heap     |-> m.heap \o <<Zeros(bandCount), Zeros(bandCount),
                                  Zeros(bandCount)>>]

\* if (!this._rawBands.has(bandCount)) { three new Float32Array(bandCount) }
EnsureBuffers(m, bandCount) ==
    IF bandCount \in DOMAIN m.raw THEN m
    ELSE LET n == Len(m.heap)
         IN  [raw      |-> m.raw @@ (bandCount :> n + 1),
              smoothed |-> m.smoothed @@ (bandCount :> n + 2),
              peaks    |-> m.peaks @@ (bandCount :> n + 3),
              heap     |-> m.heap \o <<Zeros(bandCount), Zeros(bandCount),
                                       Zeros(bandCount)>>]

\* the guard left out: a call without a source runs the two loops
NotReadyNever(initialized) == FALSE

\* if (!this.isInitialized) return smoothed: the guard, and the buffer returned
NotReady(initialized) == ~initialized
EarlyReturn(raw, smoothed, peaks) == smoothed

\* analyser.getFloatFrequencyData(floatArray): the spectrum f of the source,
\* or silence from an AnalyserNode nothing is connected to
Spectrum(f) == IF analyser \in connected THEN f ELSE Silence

\* envelope options at the ends of [0, 1] and in between
Snap  == [attack |-> 1000000, release |-> 1000000, smoothing |-> 0]
Still == [attack |-> 0, release |-> 0, smoothing |-> 1000000]
Even  == [attack |-> 500000, release |-> 500000, smoothing |-> 500000]
EnvParams == {Plain, Snap, Still, Even}
EnvCounts == {1, 2}
EnvFrames == {Loud, Soft, Silence}

\* slow options, and the options and frames of a steady source
Slow == [attack |-> 100000, release |-> 100000, smoothing |-> 900000]
SteadyParams == {Plain, Snap, Slow}
SteadyFrames == {Loud, Soft, Silence}

\* valid frequency bounds with other options off their usual range
Expand   == [compress |-> 0 - 1000000]
Mute     == [gain |-> 0]
Flip     == [gain |-> 0 - 1500000]
Lifted   == [noiseFloor |-> 0 - 500000]
OptionSets   == {Plain, Expand, Mute, Flip, Lifted}
OptionFrames == {Loud, Soft, Silence}

\* raw[] of every call the inputs allow, computed once: RawBand depends on
\* nothing but the band count, the options, the spectrum and the sample rate
TableKeys ==
    ({b \in BandCounts : b >= 0} \X ParamSets \X (Frames \cup {Silence})
        \X SampleRates)
    \cup ({b \in BandCounts : b > 0} \X {Hot} \X {Loud, Silence}
        \X SampleRates)
    \cup ({StepCount} \X {Plain} \X {Low, Silence} \X SampleRates)
    \cup ({8, 16, 32, 48, 64} \X {Plain} \X {Loud, Silence} \X SampleRates)
    \cup (EnvCounts \X EnvParams \X EnvFrames \X SampleRates)
    \cup ({StepCount} \X SteadyParams \X SteadyFrames \X SampleRates)
    \cup ({StepCount} \X OptionSets \X OptionFrames \X SampleRates)
RawTable ==
    [key \in TableKeys |->
        [j \in 1..key[1] |->
            RawBand(j - 1, key[1], Destructure(key[2]), key[3], key[4])]]

\* the three buffers after the two loops over j
Advance(raw, p, oldPeaks, oldSmoothed) ==
    [raw      |-> raw,
     peaks    |-> [j \in DOMAIN raw |-> Envelope(raw[j], oldPeaks[j], p)],
     smoothed |-> [j \in DOMAIN raw |->
                     Smooth(Envelope(raw[j], oldPeaks[j], p), oldSmoothed[j], p)]]

\* the three arrays after the call, in the heap
Store(h, raw, peaks, smoothed, next) ==
    [h EXCEPT ![raw] = next.raw, ![peaks] = next.peaks,
              ![smoothed] = next.smoothed]

\* one call of getLogBands, from the destructuring to the return
Call(bandCount, params, f) ==
    /\ steps' = [steps EXCEPT !.calls = @ + 1]
    /\ call' = [op |-> "getLogBands", bandCount |-> bandCount,
                params |-> params, ready |-> isInitialized]
    /\ UNCHANGED <<analyser, connected, pending, isInitialized, sampleRate>>
    /\ IF bandCount \notin DOMAIN _rawBands /\ bandCount < 0
       THEN \* new Float32Array(bandCount) throws RangeError
            /\ result' = [kind |-> "throw", buf |-> 0]
            /\ UNCHANGED <<floatArray, _rawBands, _smoothedBands, _peakBands,
                           heap, returned>>
       ELSE LET m        == EnsureBuffers(Buffers, bandCount)
                raw      == m.raw[bandCount]
                smoothed == m.smoothed[bandCount]
                peaks    == m.peaks[bandCount]
            IN  /\ _rawBands' = m.raw
                /\ _smoothedBands' = m.smoothed
                /\ _peakBands' = m.peaks
                /\ IF NotReady(isInitialized)
                   THEN /\ heap' = m.heap
                        /\ result' = [kind |-> "return",
                                      buf |-> EarlyReturn(raw, smoothed, peaks)]
                        /\ UNCHANGED floatArray
                   ELSE /\ floatArray' = Spectrum(f)
                        /\ heap' = Store(m.heap, raw, peaks, smoothed,
                               Advance(RawTable[bandCount, params, Spectrum(f),
                                                sampleRate],
                                       Destructure(params),
                                       m.heap[peaks], m.heap[smoothed]))
                        /\ result' = [kind |-> "return", buf |-> smoothed]
                /\ returned' = returned \cup {<<bandCount, result'.buf>>}

\* a call made by some caller, any spectrum at the source
GetLogBands(bandCount, params, f) ==
    /\ steps.calls < MaxCalls
    /\ Call(bandCount, params, f)
    /\ UNCHANGED outside

Next ==
    \/ \E sr \in SampleRates : InitAudioElement(sr)
    \/ \E sr \in SampleRates : InitMicrophone(sr)
    \/ MicGranted
    \/ MicDenied
    \/ \E bandCount \in BandCounts, params \in ParamSets, f \in Frames :
          GetLogBands(bandCount, params, f)

Spec == Init /\ [][Next]_vars

\* the options the documentation allows: 0 < freqMin < freqMax
ValidBounds(p) == p.freqMin > 0 /\ p.freqMax > p.freqMin

\* callers that pass nothing but a positive band count and valid options
NextValid ==
    \/ \E sr \in SampleRates : InitAudioElement(sr)
    \/ \E sr \in SampleRates : InitMicrophone(sr)
    \/ MicGranted
    \/ MicDenied
    \/ \E bandCount \in {b \in BandCounts : b > 0},
          params \in {q \in ParamSets : ValidBounds(Destructure(q))},
          f \in Frames :
          GetLogBands(bandCount, params, f)

SpecValid == Init /\ [][NextValid]_vars

\* a caller that passes gain = 10 while the source plays 0 dB in every bin
NextHot ==
    \/ \E sr \in SampleRates : InitAudioElement(sr)
    \/ \E sr \in SampleRates : InitMicrophone(sr)
    \/ MicGranted
    \/ MicDenied
    \/ \E bandCount \in {b \in BandCounts : b > 0} :
          GetLogBands(bandCount, Hot, Loud)

SpecHot == Init /\ [][NextHot]_vars

\* callers that pass valid frequency bounds and any other options
NextOptions ==
    \/ \E sr \in SampleRates : InitAudioElement(sr)
    \/ \E sr \in SampleRates : InitMicrophone(sr)
    \/ MicGranted
    \/ MicDenied
    \/ \E params \in OptionSets, f \in OptionFrames :
          GetLogBands(StepCount, params, f)

SpecOptions == Init /\ [][NextOptions]_vars

\* a user who changes the audio source: init() called again on the same
\* AudioAnalyzer, by loadAudioFile() or startMic(), between frames
MaxAgain == 2

AgainAudioElement(sr) ==
    /\ steps.inits < MaxAgain
    /\ InitStatements(sr)
    /\ ElementBranch

AgainMicrophone(sr) ==
    /\ steps.inits < MaxAgain
    /\ InitStatements(sr)
    /\ MicrophoneBranch

NextAgain ==
    \/ \E sr \in SampleRates : AgainAudioElement(sr)
    \/ \E sr \in SampleRates : AgainMicrophone(sr)
    \/ MicGranted
    \/ MicDenied
    \/ \E f \in {Loud, Soft} : GetLogBands(StepCount, Plain, f)

SpecAgain == Init /\ [][NextAgain]_vars

(***************************************************************************)
(* A step input: silence, a sustained tone, silence again                   *)
(***************************************************************************)
MaxQuiet == 1
MaxTone  == 6
MaxAfter == 31

\* the source is silent and no call has been made
InitStep ==
    /\ analyser = 0
    /\ connected = {}
    /\ pending = 0
    /\ isInitialized = FALSE
    /\ sampleRate = 44100
    /\ floatArray = NullArray
    /\ _rawBands = <<>>
    /\ _smoothedBands = <<>>
    /\ _peakBands = <<>>
    /\ heap = <<>>
    /\ call = NoCall
    /\ result = NoResult
    /\ returned = {}
    /\ steps = [calls |-> 0, inits |-> 0]
    /\ band = NoBand
    /\ particles = NoParticles
    /\ source = [phase |-> "quiet", quiet |-> 0, tone |-> 0, after |-> 0]
    /\ app = NoApp

\* one frame of a caller with default options while the source is silent
StepQuiet ==
    /\ isInitialized
    /\ source.phase = "quiet"
    /\ source.quiet < MaxQuiet
    /\ Call(StepCount, Plain, Silence)
    /\ source' = [source EXCEPT !.quiet = @ + 1]
    /\ UNCHANGED <<band, app, particles>>

\* the tone begins
ToneStarts ==
    /\ isInitialized
    /\ source.phase = "quiet"
    /\ source' = [source EXCEPT !.phase = "tone"]
    /\ UNCHANGED <<analyser, connected, pending, isInitialized, sampleRate,
                   floatArray, _rawBands, _smoothedBands, _peakBands, heap,
                   call, result, returned, steps, band, app, particles>>

\* one frame while the tone sounds
StepTone ==
    /\ source.phase = "tone"
    /\ source.tone < MaxTone
    /\ Call(StepCount, Plain, Low)
    /\ source' = [source EXCEPT !.tone = @ + 1]
    /\ UNCHANGED <<band, app, particles>>

\* the tone ends
ToneStops ==
    /\ source.phase = "tone"
    /\ source' = [source EXCEPT !.phase = "after"]
    /\ UNCHANGED <<analyser, connected, pending, isInitialized, sampleRate,
                   floatArray, _rawBands, _smoothedBands, _peakBands, heap,
                   call, result, returned, steps, band, app, particles>>

\* one frame after the tone
StepAfter ==
    /\ source.phase = "after"
    /\ source.after < MaxAfter
    /\ Call(StepCount, Plain, Silence)
    /\ source' = [source EXCEPT !.after = @ + 1]
    /\ UNCHANGED <<band, app, particles>>

\* init(audioElement) before the first frame of the step input: the source
\* is not replaced while the step input runs
StepInit(sr) ==
    /\ source.phase = "quiet"
    /\ source.quiet = 0
    /\ InitAudioElement(sr)

NextStep ==
    \/ \E sr \in SampleRates : StepInit(sr)
    \/ StepQuiet
    \/ ToneStarts
    \/ StepTone
    \/ ToneStops
    \/ StepAfter

SpecStep == InitStep /\ [][NextStep]_vars

(***************************************************************************)
(* The application shell: one canvas, one render loop, one visualizer       *)
(***************************************************************************)
MaxLoads  == 2
MaxFrames == 2

\* the visualizers of the registry, and the ids a caller may ask for
Registry == {"bars2d", "circle2d", "plasma2d", "bars3d", "circle3d", "lorenz",
             "spiral", "mandelbrot", "parabola"}
VisIds   == Registry \cup {"wave2d"}

\* the type property of a visualizer
VisType(id) == IF id \in {"bars3d", "circle3d"} THEN "webgl2" ELSE "2d"

\* the band count update() passes to getLogBands, 0 when it makes no call;
\* the shell's audioFrame has no audioParams, so Parabola returns before it
UpdateBands(id) ==
    CASE id = "plasma2d"   -> 16
      [] id = "bars3d"     -> 32
      [] id = "circle3d"   -> 48
      [] id = "lorenz"     -> 8
      [] id = "mandelbrot" -> 8
      [] OTHER             -> 0

\* the band count render() passes to getLogBands, 0 when it makes no call
RenderBands(id) ==
    CASE id = "spiral"     -> 64
      [] id = "mandelbrot" -> 8
      [] OTHER             -> 0

\* canvas.getContext(kind) on a canvas whose context mode is mode: the mode
\* afterwards, and whether a context (not null) is returned
GetContext(mode, kind, supported) ==
    IF mode = "none"
    THEN (IF kind = "2d" \/ supported
          THEN [mode |-> kind, ok |-> TRUE]
          ELSE [mode |-> mode, ok |-> FALSE])
    ELSE [mode |-> mode, ok |-> (mode = kind)]

\* the current visualizer dropped without a call of its dispose()
DisposedNever(a) == [a EXCEPT !.currentVisualizer = "null"]

\* if (this.currentVisualizer) { dispose(); this.currentVisualizer = null }:
\* live holds the visualizers whose init() was called after their dispose()
Disposed(a) ==
    [a EXCEPT !.live = a.live \ {a.currentVisualizer},
              !.currentVisualizer = "null"]

\* vis.init(...): overlap records an init() called while a visualizer is live
Inited(a, id) ==
    [a EXCEPT !.live = a.live \cup {id},
              !.overlap = a.overlap \/ a.live # {}]

\* loadVisualizer(id) on the shell a, after the dispose
LoadWebGL(a, id, got) ==
    [(IF got.ok THEN Inited(a, id) ELSE a)
       EXCEPT !.ctx2d = FALSE,
              !.gl = got.ok,
              !.mode = got.mode,
              !.currentVisId = id,
              !.currentVisualizer = IF got.ok THEN id ELSE "null",
              !.refused = a.refused \/ ~got.ok,
              !.loads = a.loads + 1]

Load2D(a, id, got) ==
    [Inited(a, id)
       EXCEPT !.gl = FALSE,
              !.ctx2d = got.ok,
              !.mode = got.mode,
              !.currentVisId = id,
              !.currentVisualizer = id,
              !.loads = a.loads + 1]

Found(a, id) ==
    IF id \notin Registry
    THEN [a EXCEPT !.currentVisualizer = "null", !.loads = a.loads + 1]
    ELSE IF VisType(id) = "webgl2"
    THEN LoadWebGL(a, id, IF a.gl THEN [mode |-> a.mode, ok |-> TRUE]
                          ELSE GetContext(a.mode, "webgl2", a.webgl2))
    ELSE Load2D(a, id, GetContext(a.mode, "2d", a.webgl2))

Loaded(a, id) == Found(Disposed(a), id)

\* the clear of the gl branch alone: a 2D canvas is never cleared
ClearedByGlOnly(gl, ctx2d) == gl

\* if (this.gl) { gl.clear } else if (this.ctx2d) { fillRect }
ClearedBy(gl, ctx2d) == gl \/ ctx2d

\* the analyser's variables, which the shell reaches only through getLogBands
AudioUnchanged ==
    UNCHANGED <<analyser, connected, pending, isInitialized, sampleRate,
                floatArray, _rawBands, _smoothedBands, _peakBands, heap,
                call, result, returned, steps>>

\* new VisualizerApp(), before init() has run, in a browser with or
\* without WebGL2
InitShell ==
    /\ analyser = 0
    /\ connected = {}
    /\ pending = 0
    /\ isInitialized = FALSE
    /\ sampleRate = 44100
    /\ floatArray = NullArray
    /\ _rawBands = <<>>
    /\ _smoothedBands = <<>>
    /\ _peakBands = <<>>
    /\ heap = <<>>
    /\ call = NoCall
    /\ result = NoResult
    /\ returned = {}
    /\ steps = [calls |-> 0, inits |-> 0]
    /\ band = NoBand
    /\ particles = NoParticles
    /\ source = NoSource
    /\ \E supported \in BOOLEAN :
          app = [pc |-> "new", mode |-> "none", webgl2 |-> supported,
                 gl |-> FALSE, ctx2d |-> FALSE, currentVisualizer |-> "null",
                 currentVisId |-> "bars2d", cleared |-> FALSE,
                 updated |-> FALSE, rendered |-> FALSE, asked |-> <<>>,
                 refused |-> FALSE, loads |-> 0, frames |-> 0,
                 live |-> {}, overlap |-> FALSE, stale |-> FALSE]

\* init(): loads the visualizer named by currentVisId and calls render()
AppInit ==
    /\ app.pc = "new"
    /\ app' = [Loaded(app, app.currentVisId) EXCEPT !.pc = "begin", !.loads = 0]
    /\ AudioUnchanged
    /\ UNCHANGED <<band, source, particles>>

\* the change handler of the visualizer select, between two frames
LoadVisualizer(id) ==
    /\ app.pc = "idle"
    /\ app.loads < MaxLoads
    /\ app' = Loaded(app, id)
    /\ AudioUnchanged
    /\ UNCHANGED <<band, source, particles>>

\* loadAudioFile() and startMic(), between two frames
LoadAudioFile(sr) == app.pc = "idle" /\ InitAudioElement(sr)
StartMic(sr)      == app.pc = "idle" /\ InitMicrophone(sr)
MicAnswer         == app.pc = "idle" /\ (MicGranted \/ MicDenied)

\* render(): frame time and audio data
FrameBegin ==
    /\ app.pc \in {"begin", "idle"}
    /\ app.frames < MaxFrames
    /\ app' = [app EXCEPT !.pc = "clear", !.frames = @ + 1,
                          !.cleared = FALSE, !.updated = FALSE,
                          !.rendered = FALSE, !.asked = <<>>]
    /\ AudioUnchanged
    /\ UNCHANGED <<band, source, particles>>

\* render(): clear canvas
FrameClear ==
    /\ app.pc = "clear"
    /\ app' = [app EXCEPT
            !.pc = IF app.currentVisualizer = "null" THEN "overlay"
                   ELSE "update",
            !.cleared = ClearedBy(app.gl, app.ctx2d)]
    /\ AudioUnchanged
    /\ UNCHANGED <<band, source, particles>>

\* a visualizer method that asks for n bands, or for none when n = 0
Asks(n, f) == IF n > 0 THEN Call(n, Plain, f) ELSE AudioUnchanged
Asked(a, n) == IF n > 0 THEN Append(a.asked, n) ELSE a.asked

\* render(): currentVisualizer.update(dt, audioFrame)
FrameUpdate(f) ==
    /\ app.pc = "update"
    /\ Asks(UpdateBands(app.currentVisualizer), f)
    /\ app' = [app EXCEPT !.pc = "render", !.updated = TRUE,
                          !.asked = Asked(app, UpdateBands(app.currentVisualizer)),
                          !.stale = @ \/ app.currentVisualizer \notin app.live]
    /\ UNCHANGED <<band, source, particles>>

\* render(): currentVisualizer.render()
FrameRender(f) ==
    /\ app.pc = "render"
    /\ Asks(RenderBands(app.currentVisualizer), f)
    /\ app' = [app EXCEPT !.pc = "overlay", !.rendered = TRUE,
                          !.asked = Asked(app, RenderBands(app.currentVisualizer)),
                          !.stale = @ \/ app.currentVisualizer \notin app.live]
    /\ UNCHANGED <<band, source, particles>>

\* render(): drawOverlay() and requestAnimationFrame
FrameOverlay ==
    /\ app.pc = "overlay"
    /\ app' = [app EXCEPT !.pc = "idle"]
    /\ AudioUnchanged
    /\ UNCHANGED <<band, source, particles>>

NextShell ==
    \/ AppInit
    \/ \E id \in VisIds : LoadVisualizer(id)
    \/ \E sr \in SampleRates : LoadAudioFile(sr)
    \/ \E sr \in SampleRates : StartMic(sr)
    \/ MicAnswer
    \/ FrameBegin
    \/ FrameClear
    \/ FrameUpdate(Loud)
    \/ FrameRender(Loud)
    \/ FrameOverlay

SpecShell == InitShell /\ [][NextShell]_vars

(***************************************************************************)
(* The first loop over j of getLogBands, statement by statement             *)
(***************************************************************************)
\* inputs of the loop
Wide == [freqMax |-> 25000]
Deep == [len |-> binCount, base |-> 0 - 100, peakBin |-> 9, peakDb |-> 0 - 20]
LoopCounts == {1, 2, 8, 64}
LoopParams == {Plain, Scenario, Wide}
LoopFrames == {Tone, Low, Loud, Soft, Silence, Deep}

\* the locals at the head of the loop: j = 0, nothing computed yet
LoopStart(bandCount, params, frame, rate) ==
    [pc |-> "target", bandCount |-> bandCount, p |-> Destructure(params),
     frame |-> frame, rate |-> rate, j |-> 0,
     t |-> 0, fTarget |-> 0, centerBin |-> 0, windowSize |-> 0,
     bins |-> {}, energy |-> 0,
     mean |-> 0, tilted |-> 0, tamed |-> 0, floored |-> 0, compressed |-> 0,
     limited |-> 0,
     targets |-> <<>>, centers |-> <<>>, sizes |-> <<>>, windows |-> <<>>,
     means |-> <<>>]

\* a first call on a connected analyser, stopped where the loop begins: the
\* buffers exist, the spectrum has been read
LoopEntry(bandCount, params, frame, rate) ==
    /\ analyser = 1
    /\ connected = {1}
    /\ pending = 0
    /\ isInitialized = TRUE
    /\ sampleRate = rate
    /\ floatArray = frame
    /\ _rawBands = (bandCount :> 1)
    /\ _smoothedBands = (bandCount :> 2)
    /\ _peakBands = (bandCount :> 3)
    /\ heap = <<Zeros(bandCount), Zeros(bandCount), Zeros(bandCount)>>
    /\ call = [op |-> "getLogBands", bandCount |-> bandCount,
               params |-> params, ready |-> TRUE]
    /\ result = NoResult
    /\ returned = {}
    /\ steps = [calls |-> 1, inits |-> 1]
    /\ band = LoopStart(bandCount, params, frame, rate)
    /\ particles = NoParticles
    /\ source = NoSource
    /\ app = NoApp

InitLoop ==
    \E bandCount \in LoopCounts, params \in LoopParams, frame \in LoopFrames,
       rate \in SampleRates :
        LoopEntry(bandCount, params, frame, rate)

\* what no statement of the first loop but raw[j] = energy changes
LoopRest ==
    UNCHANGED <<analyser, connected, pending, isInitialized, sampleRate,
                floatArray, _rawBands, _smoothedBands, _peakBands, call,
                result, returned, steps, source, app, particles>>

\* const t, fTarget, centerBin, windowSize
LoopTarget ==
    /\ band.pc = "target"
    /\ band' = [band EXCEPT
            !.pc = "window",
            !.t = BandT(band.j, band.bandCount),
            !.fTarget = fTarget(band.j, band.bandCount, band.p),
            !.centerBin = centerBin(fTarget(band.j, band.bandCount, band.p),
                                    band.rate),
            !.windowSize = windowSize(BandT(band.j, band.bandCount))]
    /\ UNCHANGED heap
    /\ LoopRest

\* the locals after the loop over k and the division by count
Averaged(b, bins) ==
    [b EXCEPT !.pc = "tilt", !.bins = bins,
              !.energy = WindowMean(WindowSum(b.centerBin,
                                              WindowTerms(bins, b.frame)),
                                    Cardinality(bins)),
              !.mean = WindowMean(WindowSum(b.centerBin,
                                            WindowTerms(bins, b.frame)),
                                  Cardinality(bins))]

\* for (k = -windowSize .. windowSize) ...; if (count > 0) energy /= count
LoopWindow ==
    /\ band.pc = "window"
    /\ band' = Averaged(band, WindowBins(band.windowSize, band.centerBin,
                                         minBin(band.p, band.rate),
                                         maxBin(band.p, band.rate)))
    /\ UNCHANGED heap
    /\ LoopRest

\* energy *= tiltGain
LoopTilt ==
    /\ band.pc = "tilt"
    /\ band' = [band EXCEPT !.pc = "tame",
                            !.energy = Tilt(band.energy, band.fTarget, band.p),
                            !.tilted = Tilt(band.energy, band.fTarget, band.p)]
    /\ UNCHANGED heap
    /\ LoopRest

\* if (bandPos < bassTameRange) energy = Math.pow(energy, tameGamma)
LoopTame ==
    /\ band.pc = "tame"
    /\ band' = [band EXCEPT !.pc = "gain",
                            !.energy = Tame(band.energy, band.t, band.p),
                            !.tamed = Tame(band.energy, band.t, band.p)]
    /\ UNCHANGED heap
    /\ LoopRest

\* energy *= gain; energy = Math.max(0, energy - noiseFloor)
LoopGainFloor ==
    /\ band.pc = "gain"
    /\ band' = [band EXCEPT !.pc = "compress",
                            !.energy = GainFloor(band.energy, band.p),
                            !.floored = GainFloor(band.energy, band.p)]
    /\ UNCHANGED heap
    /\ LoopRest

\* if (compress !== 1.0) energy = Math.pow(energy, compress)
LoopCompress ==
    /\ band.pc = "compress"
    /\ band' = [band EXCEPT !.pc = "limit",
                            !.energy = Compress(band.energy, band.p),
                            !.compressed = Compress(band.energy, band.p)]
    /\ UNCHANGED heap
    /\ LoopRest

\* if (energy > 0.8) energy = 0.8 + ...
LoopLimiter ==
    /\ band.pc = "limit"
    /\ band' = [band EXCEPT !.pc = "clamp",
                            !.energy = Limiter(band.energy),
                            !.limited = Limiter(band.energy)]
    /\ UNCHANGED heap
    /\ LoopRest

\* energy = Math.min(1.0, energy)
LoopClamp ==
    /\ band.pc = "clamp"
    /\ band' = [band EXCEPT !.pc = "store", !.energy = Clamp(band.energy)]
    /\ UNCHANGED heap
    /\ LoopRest

\* raw[j] = energy; j++
LoopStore ==
    /\ band.pc = "store"
    /\ heap' = [heap EXCEPT ![_rawBands[band.bandCount]][band.j + 1] =
                                band.energy]
    /\ band' = [band EXCEPT
            !.pc = IF band.j + 1 < band.bandCount THEN "target" ELSE "done",
            !.j = band.j + 1,
            !.targets = Append(band.targets, band.fTarget),
            !.centers = Append(band.centers, band.centerBin),
            !.sizes = Append(band.sizes, band.windowSize),
            !.windows = Append(band.windows, band.bins),
            !.means = Append(band.means, band.mean)]
    /\ LoopRest

\* the second loop over j, and return smoothed
LoopEnvelope ==
    /\ band.pc = "done"
    /\ band' = [band EXCEPT !.pc = "returned"]
    /\ heap' = Store(heap, _rawBands[band.bandCount],
                     _peakBands[band.bandCount],
                     _smoothedBands[band.bandCount],
                     Advance(heap[_rawBands[band.bandCount]], band.p,
                             heap[_peakBands[band.bandCount]],
                             heap[_smoothedBands[band.bandCount]]))
    /\ result' = [kind |-> "return", buf |-> _smoothedBands[band.bandCount]]
    /\ returned' = returned \cup {<<band.bandCount, result'.buf>>}
    /\ UNCHANGED <<analyser, connected, pending, isInitialized, sampleRate,
                   floatArray, _rawBands, _smoothedBands, _peakBands, call,
                   steps, source, app, particles>>

NextLoop ==
    \/ LoopTarget
    \/ LoopWindow
    \/ LoopTilt
    \/ LoopTame
    \/ LoopGainFloor
    \/ LoopCompress
    \/ LoopLimiter
    \/ LoopClamp
    \/ LoopStore
    \/ LoopEnvelope

SpecLoop == InitLoop /\ [][NextLoop]_vars

\* the loop run with other bass taming options
Broad   == [bassTame |-> 1000000, bassTameRange |-> 500000]
NoRange == [bassTameRange |-> 0]
TameParams == {Plain, Scenario, Broad, NoRange}
TameCounts == {1, 2, 8}
TameFrames == {Loud, Soft}

InitTame ==
    \E bandCount \in TameCounts, params \in TameParams, frame \in TameFrames,
       rate \in SampleRates :
        LoopEntry(bandCount, params, frame, rate)

SpecTame == InitTame /\ [][NextLoop]_vars

(***************************************************************************)
(* The second loop over j of getLogBands, statement by statement            *)
(***************************************************************************)
MaxEnvCalls == 3


\* between two calls: params are the options every call of the run passes,
\* left the peaks and smoothed values each finished call left, by bandCount
EnvIdle(params, left) ==
    [pc |-> "idle", params |-> params, bandCount |-> 0, j |-> 0,
     peakWas |-> 0, smoothedWas |-> 0, left |-> left]

\* a source has been attached by init(audioElement), no call has been made
InitEnv ==
    \E params \in EnvParams, rate \in SampleRates :
        /\ analyser = 1
        /\ connected = {1}
        /\ pending = 0
        /\ isInitialized = TRUE
        /\ sampleRate = rate
        /\ floatArray = NewArray
        /\ _rawBands = <<>>
        /\ _smoothedBands = <<>>
        /\ _peakBands = <<>>
        /\ heap = <<>>
        /\ call = [NoCall EXCEPT !.op = "init"]
        /\ result = NoResult
        /\ returned = {}
        /\ steps = [calls |-> 0, inits |-> 1]
        /\ band = EnvIdle(params, <<>>)
        /\ particles = NoParticles
        /\ source = NoSource
        /\ app = NoApp

\* a ready call up to the end of the first loop: raw[] is filled, the second
\* loop is about to begin with j = 0
EnvBegin(bandCount, f) ==
    /\ band.pc = "idle"
    /\ steps.calls < MaxEnvCalls
    /\ isInitialized
    /\ steps' = [steps EXCEPT !.calls = @ + 1]
    /\ call' = [op |-> "getLogBands", bandCount |-> bandCount,
                params |-> band.params, ready |-> isInitialized]
    /\ LET m == EnsureBuffers(Buffers, bandCount)
       IN  /\ _rawBands' = m.raw
           /\ _smoothedBands' = m.smoothed
           /\ _peakBands' = m.peaks
           /\ floatArray' = Spectrum(f)
           /\ heap' = [m.heap EXCEPT ![m.raw[bandCount]] =
                          RawTable[bandCount, band.params, Spectrum(f),
                                   sampleRate]]
    /\ band' = [band EXCEPT !.pc = "envelope", !.bandCount = bandCount,
                            !.j = 0]
    /\ result' = NoResult
    /\ UNCHANGED <<analyser, connected, pending, isInitialized, sampleRate,
                   returned, source, app, particles>>

\* if (raw[j] > peaks[j]) peaks[j] += ... attack else peaks[j] += ... release
EnvPeak ==
    /\ band.pc = "envelope"
    /\ heap' = [heap EXCEPT ![_peakBands[band.bandCount]][band.j + 1] =
                   Envelope(heap[_rawBands[band.bandCount]][band.j + 1], @,
                            Destructure(band.params))]
    /\ band' = [band EXCEPT
            !.pc = "smooth",
            !.peakWas = heap[_peakBands[band.bandCount]][band.j + 1],
            !.smoothedWas = heap[_smoothedBands[band.bandCount]][band.j + 1]]
    /\ UNCHANGED <<analyser, connected, pending, isInitialized, sampleRate,
                   floatArray, _rawBands, _smoothedBands, _peakBands, call,
                   result, returned, steps, source, app, particles>>

\* the locals and the history after band j, the last band included
EnvNext(b, peaks, smoothed) ==
    IF b.j + 1 < b.bandCount
    THEN [b EXCEPT !.pc = "envelope", !.j = b.j + 1]
    ELSE [b EXCEPT !.pc = "idle", !.j = b.j + 1,
                   !.left = (b.bandCount :> [peaks |-> peaks,
                                             smoothed |-> smoothed]) @@ b.left]

\* smoothed[j] += (peaks[j] - smoothed[j]) * (1 - smoothing); j++; and
\* return smoothed after the last band
EnvSmooth ==
    /\ band.pc = "smooth"
    /\ heap' = [heap EXCEPT ![_smoothedBands[band.bandCount]][band.j + 1] =
                   Smooth(heap[_peakBands[band.bandCount]][band.j + 1], @,
                          Destructure(band.params))]
    /\ band' = EnvNext(band, heap'[_peakBands[band.bandCount]],
                       heap'[_smoothedBands[band.bandCount]])
    /\ IF band.j + 1 < band.bandCount
       THEN UNCHANGED <<result, returned>>
       ELSE /\ result' = [kind |-> "return",
                          buf |-> _smoothedBands[band.bandCount]]
            /\ returned' = returned \cup {<<band.bandCount, result'.buf>>}
    /\ UNCHANGED <<analyser, connected, pending, isInitialized, sampleRate,
                   floatArray, _rawBands, _smoothedBands, _peakBands, call,
                   steps, source, app, particles>>

NextEnv ==
    \/ \E bandCount \in EnvCounts, f \in EnvFrames : EnvBegin(bandCount, f)
    \/ EnvPeak
    \/ EnvSmooth

SpecEnv == InitEnv /\ [][NextEnv]_vars

(***************************************************************************)
(* A constant spectral frame and fixed options, call after call             *)
(***************************************************************************)
MaxSteady == 150

\* between two calls of a caller that passes params every time, while the
\* source plays frame; calls counts the calls made since the frame settled
Steadying(phase, params, frame) ==
    [phase |-> phase, params |-> params, frame |-> frame, calls |-> 0]

\* a source has been attached by init(audioElement), no call has been made
InitSteady ==
    \E params \in SteadyParams, frame \in SteadyFrames, rate \in SampleRates :
        /\ analyser = 1
        /\ connected = {1}
        /\ pending = 0
        /\ isInitialized = TRUE
        /\ sampleRate = rate
        /\ floatArray = NewArray
        /\ _rawBands = <<>>
        /\ _smoothedBands = <<>>
        /\ _peakBands = <<>>
        /\ heap = <<>>
        /\ call = [NoCall EXCEPT !.op = "init"]
        /\ result = NoResult
        /\ returned = {}
        /\ steps = [calls |-> 0, inits |-> 1]
        /\ band = NoBand
        /\ particles = NoParticles
        /\ source = Steadying("before", params, frame)
        /\ app = NoApp

\* one call while the source still plays something else: 0 dB in every bin
SteadyBefore ==
    /\ source.phase = "before"
    /\ steps.calls = 0
    /\ Call(StepCount, source.params, Loud)
    /\ UNCHANGED <<band, source, app, particles>>

\* the source settles on its frame
SteadyBegins ==
    /\ source.phase = "before"
    /\ source' = [source EXCEPT !.phase = "steady"]
    /\ UNCHANGED <<analyser, connected, pending, isInitialized, sampleRate,
                   floatArray, _rawBands, _smoothedBands, _peakBands, heap,
                   call, result, returned, steps, band, app, particles>>

\* one more call on the same frame with the same options
SteadyCall ==
    /\ source.phase = "steady"
    /\ source.calls < MaxSteady
    /\ Call(StepCount, source.params, source.frame)
    /\ source' = [source EXCEPT !.calls = @ + 1]
    /\ UNCHANGED <<band, app, particles>>

NextSteady ==
    \/ SteadyBefore
    \/ SteadyBegins
    \/ SteadyCall

\* a step on which the source settles or a call on the settled source is made
SteadyStep ==
    \/ /\ source.phase = "before"
       /\ source' = [source EXCEPT !.phase = "steady"]
    \/ /\ source.phase = "steady"
       /\ source.calls < MaxSteady
       /\ source' = [source EXCEPT !.calls = @ + 1]

\* the render loop keeps calling: requestAnimationFrame schedules every frame
SpecSteady == InitSteady /\ [][NextSteady]_vars /\ WF_source(SteadyStep)

(***************************************************************************)
(* ParticleSystem (src/audio/analyzer.js): spawn, update, removeParticle   *)
(*                                                                         *)
(* The parallel arrays are one sequence of slots; a slot holds the values  *)
(* the arrays hold at one index.  position and velocity stand for their    *)
(* three components, which the code treats alike, and velocity also for    *)
(* uvOffsets and colors, which update() never writes.  id is not in the    *)
(* code: it numbers the spawn calls, and travels with the slot's data.     *)
(* spawns and updates count the calls, deltaTime is the argument of the    *)
(* last update.                                                            *)
(***************************************************************************)
MaxSpawns  == 4
MaxUpdates == 3

\* inputs: maxParticles, the options of spawn, deltaTime and audioLevel
Capacities == {0, 2, 3}
Brief      == [lifetime |-> 400000, velocity |-> 1000000]
Second     == [lifetime |-> 1000000]
Drifting   == [velocity |-> 1000000]
SpawnOptions == {Brief, Second, Drifting}
Ticks      == {[deltaTime |-> 500000, audioLevel |-> 0],
               [deltaTime |-> 1000000, audioLevel |-> 1000000]}

\* the defaults of the destructured options argument of spawn
SpawnDefaults ==
    [position |-> 0, velocity |-> 0, opacity |-> 1000000, scale |-> 1000000,
     lifetime |-> 2000000]

SpawnDestructure(options) ==
    [f \in DOMAIN SpawnDefaults |->
        IF f \in DOMAIN options THEN options[f] ELSE SpawnDefaults[f]]

\* index i of the new Float32Arrays
ZeroSlot ==
    [id |-> 0, position |-> 0, velocity |-> 0, opacity |-> 0, scale |-> 0,
     lifetime |-> 0]

\* new ParticleSystem(gl, maxParticles)
NewSystem(maxParticles) ==
    [pc |-> "ready", maxParticles |-> maxParticles, particleCount |-> 0,
     slots |-> [i \in 1..maxParticles |-> ZeroSlot],
     spawns |-> 0, updates |-> 0, deltaTime |-> 0]

\* a store at index i of the typed arrays: out of range, it is ignored
Write(slots, i, slot) ==
    IF i + 1 \in DOMAIN slots THEN [slots EXCEPT ![i + 1] = slot] ELSE slots

\* the guard left out: spawn never finds the system full
FullNever(sys) == FALSE

\* if (this.particleCount >= this.maxParticles) return
Full(sys) == sys.particleCount >= sys.maxParticles

\* spawn(options) on the system sys
Spawned(sys, options) ==
    IF Full(sys) THEN [sys EXCEPT !.spawns = @ + 1]
    ELSE [sys EXCEPT
            !.slots = Write(sys.slots, sys.particleCount,
                            [id       |-> sys.spawns + 1,
                             position |-> SpawnDestructure(options).position,
                             velocity |-> SpawnDestructure(options).velocity,
                             opacity  |-> SpawnDestructure(options).opacity,
                             scale    |-> SpawnDestructure(options).scale,
                             lifetime |-> SpawnDestructure(options).lifetime]),
            !.particleCount = @ + 1,
            !.spawns = @ + 1]

\* removeParticle(index): the last particle's data copied over it
removeParticle(sys, index) ==
    [sys EXCEPT
        !.slots = IF index # sys.particleCount - 1
                  THEN Write(sys.slots, index, sys.slots[sys.particleCount])
                  ELSE sys.slots,
        !.particleCount = @ - 1]

\* this.lifetimes[i] -= deltaTime
Aged(sys, i, deltaTime) ==
    [sys EXCEPT !.slots[i + 1].lifetime = @ - deltaTime]

\* the rest of the loop body for a particle that stays alive
Moved(slot, deltaTime, audioLevel) ==
    [slot EXCEPT
        !.position = @ + Mul(slot.velocity, deltaTime),
        !.opacity = IF slot.lifetime < 500000 THEN slot.lifetime * 2 ELSE @,
        !.scale = Mul(@, Unit + Mul(audioLevel, 100000))]

\* the loop goes on with the slot after the one a particle was removed from
ResumeAhead(i) == i + 1

\* i--; continue; and the loop's i++
Resume(i) == (i - 1) + 1

\* the loop of update from index i on
RECURSIVE UpdateFrom(_, _, _, _)
UpdateFrom(sys, i, deltaTime, audioLevel) ==
    IF i >= sys.particleCount THEN sys
    ELSE IF Aged(sys, i, deltaTime).slots[i + 1].lifetime <= 0
    THEN UpdateFrom(removeParticle(Aged(sys, i, deltaTime), i), Resume(i),
                    deltaTime, audioLevel)
    ELSE UpdateFrom([sys EXCEPT !.slots[i + 1] =
                        Moved(Aged(sys, i, deltaTime).slots[i + 1],
                              deltaTime, audioLevel)],
                    i + 1, deltaTime, audioLevel)

\* update(deltaTime, audioLevel) on the system sys
Updated(sys, deltaTime, audioLevel) ==
    [UpdateFrom(sys, 0, deltaTime, audioLevel) EXCEPT
        !.updates = @ + 1, !.deltaTime = deltaTime]

InitParticles ==
    /\ analyser = 0
    /\ connected = {}
    /\ pending = 0
    /\ isInitialized = FALSE
    /\ sampleRate = 44100
    /\ floatArray = NullArray
    /\ _rawBands = <<>>
    /\ _smoothedBands = <<>>
    /\ _peakBands = <<>>
    /\ heap = <<>>
    /\ call = NoCall
    /\ result = NoResult
    /\ returned = {}
    /\ steps = [calls |-> 0, inits |-> 0]
    /\ band = NoBand
    /\ source = NoSource
    /\ app = NoApp
    /\ \E maxParticles \in Capacities : particles = NewSystem(maxParticles)

Spawn(options) ==
    /\ particles.spawns < MaxSpawns
    /\ particles' = Spawned(particles, options)
    /\ AudioUnchanged
    /\ UNCHANGED <<band, source, app>>

Update(deltaTime, audioLevel) ==
    /\ particles.updates < MaxUpdates
    /\ particles' = Updated(particles, deltaTime, audioLevel)
    /\ AudioUnchanged
    /\ UNCHANGED <<band, source, app>>

NextParticles ==
    \/ \E options \in SpawnOptions : Spawn(options)
    \/ \E tick \in Ticks : Update(tick.deltaTime, tick.audioLevel)

SpecParticles == InitParticles /\ [][NextParticles]_vars

(***************************************************************************)
(* Properties                                                              *)
(***************************************************************************)
\* the state is the one a getLogBands call left
LastGet == call.op = "getLogBands"

\* the step is a getLogBands call
GetStep == steps'.calls = steps.calls + 1

\* the vector the last call returned
Output == heap[result.buf]

\* the contents of the three buffers of band count b
RawOf(b)      == heap[_rawBands[b]]
PeaksOf(b)    == heap[_peakBands[b]]
SmoothedOf(b) == heap[_smoothedBands[b]]

NotReadyNoAdvance ==
    [][(GetStep /\ ~isInitialized /\ call'.bandCount > 0)
       => /\ result'.kind = "return"
          /\ result'.buf = _smoothedBands'[call'.bandCount]
          /\ \A b \in DOMAIN _peakBands :
                /\ b \in DOMAIN _peakBands' /\ b \in DOMAIN _smoothedBands'
                /\ heap'[_peakBands'[b]] = PeaksOf(b)
                /\ heap'[_smoothedBands'[b]] = SmoothedOf(b)]_vars

\* a call without a source returned while two band counts had state
NotReadyNoAdvanceWitness ==
    /\ LastGet /\ ~call.ready /\ call.bandCount > 0
    /\ result.kind = "return"
    /\ Cardinality(DOMAIN _peakBands) >= 2

\* C3: as long as no source was ever attached, every call with a positive
\* bandCount returns bandCount zeros
ZeroWithoutSource ==
    (connected = {} /\ LastGet /\ call.bandCount > 0)
    => /\ result.kind = "return"
       /\ Len(Output) = call.bandCount
       /\ \A j \in 1..call.bandCount : Output[j] = 0

\* a third call in a row on an extractor no source was attached to
ZeroWithoutSourceWitness ==
    /\ connected = {} /\ LastGet /\ call.bandCount > 0
    /\ steps.calls >= 3
    /\ result.kind = "return"

\* C4: a call with bandCount = 0 or bandCount < 0 is rejected with an error
RejectsNonPositiveCount ==
    (LastGet /\ call.bandCount <= 0) => result.kind = "throw"

\* C5: a call with freqMin <= 0 or freqMax <= freqMin is rejected with an
\* error and returns no vector
RejectsInvalidBounds ==
    (LastGet /\ ~ValidBounds(Destructure(call.params))) => result.kind = "throw"

\* C6: a call with invalid frequency bounds or bandCount <= 0 leaves the
\* Maps and the raw, peak and smoothed values of every bandCount as they were
MalformedNotApplied ==
    [][(GetStep /\ (call'.bandCount <= 0
                    \/ ~ValidBounds(Destructure(call'.params))))
       => UNCHANGED <<_rawBands, _smoothedBands, _peakBands, heap>>]_vars

\* no array belongs to two band counts or serves two purposes
DisjointState ==
    \A a, b \in DOMAIN _rawBands :
        /\ Cardinality({_rawBands[a], _smoothedBands[a], _peakBands[a]}) = 3
        /\ a # b => {_rawBands[a], _smoothedBands[a], _peakBands[a]}
                    \cap {_rawBands[b], _smoothedBands[b], _peakBands[b]} = {}

\* C7: a call for one bandCount leaves the raw, peak and smoothed values of
\* every other bandCount unchanged, each bandCount owning arrays of its own
OtherCountsUntouched ==
    /\ []DisjointState
    /\ [][GetStep
          => \A b \in DOMAIN _rawBands \ {call'.bandCount} :
                /\ b \in DOMAIN _rawBands'
                /\ b \in DOMAIN _peakBands'
                /\ b \in DOMAIN _smoothedBands'
                /\ heap'[_rawBands'[b]] = RawOf(b)
                /\ heap'[_peakBands'[b]] = PeaksOf(b)
                /\ heap'[_smoothedBands'[b]] = SmoothedOf(b)]_vars

\* a ready call advanced one bandCount while another one held nonzero values
OtherCountsUntouchedWitness ==
    /\ LastGet /\ call.ready /\ call.bandCount > 0
    /\ result.kind = "return"
    /\ \E j \in 1..call.bandCount : Output[j] > 0
    /\ \E b \in DOMAIN _rawBands \ {call.bandCount} :
          b > 0 /\ \E j \in 1..b : SmoothedOf(b)[j] > 0

\* every vector handed out is still the smoothed buffer of its bandCount
SameBufferReturned ==
    \A r \in returned :
        /\ r[1] \in DOMAIN _smoothedBands
        /\ r[2] = _smoothedBands[r[1]]
        /\ Len(heap[r[2]]) = r[1]

\* C8: the buffers of a bandCount are created by the first call for it, as
\* zeros, and from then on never removed, replaced or resized; every call for
\* the bandCount returns the same smoothed buffer
CreatedOnceKeptForever ==
    /\ []SameBufferReturned
    /\ [][/\ \A b \in DOMAIN _rawBands :
                /\ b \in DOMAIN _rawBands'
                /\ b \in DOMAIN _peakBands'
                /\ b \in DOMAIN _smoothedBands'
                /\ _rawBands'[b] = _rawBands[b]
                /\ _peakBands'[b] = _peakBands[b]
                /\ _smoothedBands'[b] = _smoothedBands[b]
                /\ Len(heap'[_rawBands[b]]) = b
                /\ Len(heap'[_peakBands[b]]) = b
                /\ Len(heap'[_smoothedBands[b]]) = b
          /\ (GetStep /\ call'.bandCount \in DOMAIN _rawBands)
             => Len(heap') = Len(heap)
          /\ (GetStep /\ call'.bandCount >= 0
                      /\ call'.bandCount \notin DOMAIN _rawBands)
             => LET b == call'.bandCount
                    p == Destructure(call'.params)
                IN  /\ b \in DOMAIN _rawBands'
                    /\ Len(heap') = Len(heap) + 3
                    /\ \A j \in 1..b :
                          IF isInitialized
                          THEN /\ heap'[_peakBands'[b]][j]
                                    = Envelope(heap'[_rawBands'[b]][j], 0, p)
                               /\ heap'[_smoothedBands'[b]][j]
                                    = Smooth(heap'[_peakBands'[b]][j], 0, p)
                          ELSE /\ heap'[_rawBands'[b]][j] = 0
                               /\ heap'[_peakBands'[b]][j] = 0
                               /\ heap'[_smoothedBands'[b]][j] = 0]_vars

\* a later ready call returned the buffer again: its raw values are zero while
\* the smoothed values still carry an earlier call
CreatedOnceKeptForeverWitness ==
    /\ LastGet /\ call.ready /\ call.bandCount > 0
    /\ result.kind = "return"
    /\ <<call.bandCount, result.buf>> \in returned
    /\ \A j \in 1..call.bandCount : RawOf(call.bandCount)[j] = 0
    /\ \E j \in 1..call.bandCount : Output[j] > 0

\* the scenario: four bands, 100 Hz to 10 kHz, no tilt, no taming, 44.1 kHz,
\* -80 dB in every bin but the one of 1000 Hz
ScenarioCall ==
    /\ LastGet /\ call.ready
    /\ call.bandCount = 4
    /\ call.params = Scenario
    /\ floatArray = Tone
    /\ sampleRate = 44100

\* the envelope has settled: peak and smoothed have reached raw
ScenarioSettled ==
    /\ ScenarioCall
    /\ PeaksOf(4) = RawOf(4)
    /\ SmoothedOf(4) = RawOf(4)

\* C10 as stated: once settled, a band next to 1000 Hz (464 Hz or 2154 Hz) has
\* the largest output, the 100 Hz band the smallest, and the two differ
ScenarioPeakBandLargest ==
    ScenarioSettled
    => /\ \E j \in {2, 3} :
             /\ \A i \in 1..4 : Output[j] >= Output[i]
             /\ Output[j] > Output[1]
       /\ \A i \in 1..4 : Output[1] <= Output[i]

\* C10 amended: in the scenario the raw energy of all four bands is 0, the
\* 0 dB bin lying in no band's window, and once settled all outputs are 0
ScenarioAllZero ==
    ScenarioCall
    => /\ \A j \in 1..4 : RawOf(4)[j] = 0
       /\ ScenarioSettled => \A j \in 1..4 : Output[j] = 0

\* the scenario has been played and the envelope has settled
ScenarioAllZeroWitness == ScenarioSettled /\ steps.calls >= 2

\* the loop over j has stored its last band
LoopDone == band.pc = "done"

\* the bands of the loop, numbered from 1 as the history sequences are
LoopBands == 1..band.bandCount

\* the frequency of the middle of a bin, bin * hzPerBin, in milli-Hertz
BinHz(bin, rate) == (bin * rate * 125) \div 512

\* one bin at -60 dB or more, every other bin at least 20 dB below it
Concentrated(frame) ==
    /\ frame.peakBin >= 0
    /\ frame.peakDb >= 0 - 60
    /\ frame.peakDb - Max2(frame.base, 0 - 80) >= 20

\* the frequency of the peak bin lies inside [freqMin, freqMax]
PeakInBounds ==
    /\ BinHz(band.frame.peakBin, band.rate) >= band.p.freqMin * Kilo
    /\ BinHz(band.frame.peakBin, band.rate) <= band.p.freqMax * Kilo

\* band j is a band whose target frequency is closest to the peak's
ClosestTarget(j) ==
    \A i \in LoopBands :
        Abs(band.targets[j] - BinHz(band.frame.peakBin, band.rate))
            <= Abs(band.targets[i] - BinHz(band.frame.peakBin, band.rate))

\* band j is, among the bands of its window size, one whose centre bin is
\* nearest to the peak bin
NearestCenter(j) ==
    \A i \in LoopBands :
        band.sizes[i] = band.sizes[j]
            => Abs(band.centers[j] - band.frame.peakBin)
                   <= Abs(band.centers[i] - band.frame.peakBin)

\* the window of band j holds the peak bin
HoldsPeak(j) == band.frame.peakBin \in band.windows[j]

\* C11 as stated: the band whose target is closest to f0 has the highest
\* energy among the bands of its window size
ClosestBandHighest ==
    (LoopDone /\ Concentrated(band.frame) /\ PeakInBounds)
        => \A j \in LoopBands :
              ClosestTarget(j)
                  => \A i \in LoopBands :
                        band.sizes[i] = band.sizes[j]
                            => band.means[i] <= band.means[j]

\* C11: with one bin of the valid range at -60 dB or more and every other bin
\* at least 20 dB below it, a band whose window holds that bin has a higher
\* window mean than every band whose window does not, and among the bands of
\* one window size the band whose centre bin is nearest to it holds it
\* whenever any of them does
ToneBandsOutrankOthers ==
    (LoopDone /\ Concentrated(band.frame) /\ PeakInBounds)
        => /\ \A j \in LoopBands, i \in LoopBands :
                 (HoldsPeak(j) /\ ~HoldsPeak(i))
                     => band.means[j] > band.means[i]
           /\ \A j \in LoopBands, i \in LoopBands :
                 (NearestCenter(j) /\ band.sizes[i] = band.sizes[j]
                    /\ HoldsPeak(i))
                     => HoldsPeak(j)

\* 64 default bands, a tone in bin 9: the band nearest to it holds it in a
\* window of five bins, a farther band of the same size in a window the
\* valid range cuts to four, and other bands of that size miss it
ToneBandsOutrankOthersWitness ==
    /\ LoopDone /\ Concentrated(band.frame) /\ PeakInBounds
    /\ band.bandCount = 64
    /\ \E j \in LoopBands, i \in LoopBands, m \in LoopBands :
          /\ ClosestTarget(j) /\ NearestCenter(j) /\ HoldsPeak(j)
          /\ band.sizes[i] = band.sizes[j] /\ HoldsPeak(i)
          /\ Cardinality(band.windows[i]) < Cardinality(band.windows[j])
          /\ band.sizes[m] = band.sizes[j] /\ ~HoldsPeak(m)

\* C12: with 0 dB in every bin and gain = 10, every band of the vector a call
\* returns is a number not above 1.0
HotOutputBounded ==
    (LastGet /\ result.kind = "return")
        => \A i \in DOMAIN Output : IsFinite(Output[i]) /\ Output[i] <= Unit

\* a call on a connected analyser: every raw band sits at the clamp, the
\* output has risen
HotOutputBoundedWitness ==
    /\ LastGet /\ call.ready /\ call.params = Hot /\ floatArray = Loud
    /\ result.kind = "return"
    /\ \A i \in DOMAIN Output :
          RawOf(call.bandCount)[i] = Unit /\ Output[i] > Unit \div 2

\* (1 - factor)^n: what is left of a step after n passes of a one-pole filter
RECURSIVE Residue(_, _)
Residue(factor, n) ==
    IF n = 0 THEN Unit ELSE Mul(Residue(factor, n - 1), Unit - factor)

\* the least n with (1 - factor)^n <= 0.01: ln(0.01)/ln(1 - factor) rounded up
CallsToOnePercent(factor) ==
    CHOOSE n \in 1..MaxAfter :
        /\ 100 * Residue(factor, n) <= Unit
        /\ 100 * Residue(factor, n - 1) > Unit

\* the band of the step input the tone falls in, its raw value while the
\* tone sounds, its peak envelope and its output
StepTarget == RawTable[<<StepCount, Plain, Low, sampleRate>>][1]
StepPeak   == PeaksOf(StepCount)[1]
StepOutput == SmoothedOf(StepCount)[1]

\* n calls have been made since the tone began, none since it ended
Risen(n)  == source.tone >= n /\ source.after = 0
Rising(n) == source.tone >= 1 /\ source.tone < n /\ source.after = 0

\* the tone was held until the output had settled, and has ended
Held == source.phase = "after" /\ source.tone >= 5

\* C13 as stated: the output is within 1% of its target about
\* ln(0.01)/ln(1 - attack) calls after the tone starts (one call more is
\* allowed here), and after the tone it is not near zero within that many
\* calls
StepRiseAsStated ==
    /\ Risen(CallsToOnePercent(Defaults.attack) + 1)
          => 100 * (StepTarget - StepOutput) <= StepTarget
    /\ (Held /\ source.after <= CallsToOnePercent(Defaults.attack) + 1)
          => 100 * StepOutput > StepTarget

\* C13: with the default attack 0.8, release 0.15 and smoothing 0.3 the peak
\* envelope of the band is within 1% of its target after
\* ceil(ln(0.01)/ln(1 - attack)) = 3 calls and not before, the output after 5
\* calls and not before, and after a tone held that long the output is above
\* 1% of the target for 28 calls and at or below it from the 29th on
StepRiseAndDecay ==
    /\ Risen(CallsToOnePercent(Defaults.attack))
          => 100 * (StepTarget - StepPeak) <= StepTarget
    /\ Rising(CallsToOnePercent(Defaults.attack))
          => 100 * (StepTarget - StepPeak) > StepTarget
    /\ Risen(5) => 100 * (StepTarget - StepOutput) <= StepTarget
    /\ Rising(5) => 100 * (StepTarget - StepOutput) > StepTarget
    /\ (Held /\ source.after <= 28) => 100 * StepOutput > StepTarget
    /\ (Held /\ source.after >= 29) => 100 * StepOutput <= StepTarget

\* the tone was held for five calls or more and 29 calls have been made since
\* it ended: the output has come down to 1% of the target, and is not yet zero
StepRiseAndDecayWitness ==
    /\ Held /\ source.after = 29
    /\ StepTarget > Unit \div 4
    /\ StepOutput > 0
    /\ 100 * StepOutput <= StepTarget

\* a target frequency in milli-Hertz equals hz Hertz, to one part in 1000
NearHz(fT, hz) == Abs(fT - hz * Kilo) <= hz

\* target frequencies strictly increase with j, centre bins never decrease
Ascending ==
    \A j \in 1..(band.bandCount - 1) :
        /\ band.targets[j] < band.targets[j + 1]
        /\ band.centers[j] <= band.centers[j + 1]

\* C14 as stated: band 0 at freqMin, band bandCount - 1 at freqMax, targets
\* strictly increasing and centre bins non-decreasing in j
BandsAscendAsStated ==
    LoopDone
        => /\ NearHz(band.targets[1], band.p.freqMin)
           /\ NearHz(band.targets[band.bandCount], band.p.freqMax)
           /\ Ascending

\* C14: with 0 < freqMin < freqMax the target of band 0 is freqMin; with two
\* bands or more the target of band bandCount - 1 is freqMax, targets strictly
\* increase and centre bins never decrease with j; a single band sits at
\* freqMin and not at freqMax
BandsAscend ==
    (LoopDone /\ ValidBounds(band.p))
        => /\ NearHz(band.targets[1], band.p.freqMin)
           /\ band.bandCount >= 2
                 => NearHz(band.targets[band.bandCount], band.p.freqMax)
           /\ band.bandCount = 1
                 => ~NearHz(band.targets[band.bandCount], band.p.freqMax)
           /\ Ascending

\* 64 bands from freqMin up to freqMax, two neighbours on one centre bin
BandsAscendWitness ==
    /\ LoopDone /\ ValidBounds(band.p)
    /\ band.bandCount = 64
    /\ NearHz(band.targets[1], band.p.freqMin)
    /\ NearHz(band.targets[64], band.p.freqMax)
    /\ \E j \in 1..63 : /\ band.targets[j] < band.targets[j + 1]
                        /\ band.centers[j] = band.centers[j + 1]

\* how many getLogBands calls of the frame under way asked for n bands
AskedFor(n) == Cardinality({i \in DOMAIN app.asked : app.asked[i] = n})

\* C15: within one frame of the shell the extractor is called at most once
\* for any band count, whatever visualizer is current
OncePerFrame == \A n \in {8, 16, 32, 48, 64} : AskedFor(n) <= 1

\* C16: in every frame in which the current visualizer's render() has run,
\* the shell has cleared the canvas and update() has run before it
ClearedBeforeRender == app.rendered => (app.cleared /\ app.updated)

\* a frame that rendered a visualizer loaded after a WebGL2 visualizer had
\* been asked for and refused
ClearedBeforeRenderWitness ==
    /\ app.rendered /\ app.cleared /\ app.updated
    /\ app.refused
    /\ app.loads >= 2
    /\ app.currentVisualizer = "spiral"

\* C17: the centre bin of every band lies in the valid bin range
\* [minBin, maxBin], also when freqMax is above the Nyquist frequency
CenterBinClamped ==
    LoopDone
        => \A j \in LoopBands :
              /\ band.centers[j] >= minBin(band.p, band.rate)
              /\ band.centers[j] <= maxBin(band.p, band.rate)

\* the window half-width the documentation gives band j (numbered from 1):
\* 3 for band 0, 2 for 0 < t <= 0.5, 1 for t > 0.5, t = (j - 1)/(bandCount - 1)
StatedSize(j) ==
    IF j = 1 THEN 3
    ELSE IF 2 * (j - 1) <= band.bandCount - 1 THEN 2
    ELSE 1

\* the bins of [centerBin - w, centerBin + w] inside the valid bin range
StatedWindow(j) ==
    {bin \in (band.centers[j] - StatedSize(j))..(band.centers[j] + StatedSize(j)) :
        /\ bin >= minBin(band.p, band.rate)
        /\ bin <= maxBin(band.p, band.rate)}

\* the mean of the linear energies of n bins, inside of them the peak bin or
\* not: frames are at base dB in every bin but the peak bin
StatedMean(n, inside, frame) ==
    IF n = 0 THEN 0
    ELSE IF inside
    THEN (Linear(frame.peakDb) + (n - 1) * Linear(frame.base)) \div n
    ELSE Linear(frame.base)

\* C18: the energy of band j before tilt is the mean of the linear energies
\* of exactly the bins of [centerBin - w, centerBin + w] inside the valid bin
\* range, w = max(1, floor(3 - 2t)); a band with no such bin has raw energy 0
WindowIsRangeMean ==
    LoopDone
        => \A j \in LoopBands :
              /\ band.sizes[j] = StatedSize(j)
              /\ band.windows[j] = StatedWindow(j)
              /\ band.means[j] =
                     StatedMean(Cardinality(StatedWindow(j)),
                                band.frame.peakBin \in StatedWindow(j),
                                band.frame)
              /\ StatedWindow(j) = {} => RawOf(band.bandCount)[j] = 0

\* a call whose lowest band has a window cut short by the valid range, with
\* the tone in it, and whose highest band has no bin in the range
WindowIsRangeMeanWitness ==
    /\ LoopDone
    /\ band.bandCount >= 2
    /\ band.windows[band.bandCount] = {}
    /\ RawOf(band.bandCount)[band.bandCount] = 0
    /\ band.sizes[1] = 3
    /\ Cardinality(band.windows[1]) = 4
    /\ band.frame.peakBin \in band.windows[1]
    /\ band.means[1] > Unit \div 5

\* the call has returned
LoopReturned == band.pc = "returned"

\* a frame with every value below -80 dB raised to -80 dB
Floored(frame) ==
    [frame EXCEPT !.base = Max2(frame.base, 0 - 80),
                  !.peakDb = Max2(frame.peakDb, 0 - 80)]

\* the three buffers of a first call that reads the spectrum frame
FirstCall(bandCount, p, frame, rate) ==
    Advance([j \in 1..bandCount |-> RawBand(j - 1, bandCount, p, frame, rate)],
            p, Zeros(bandCount), Zeros(bandCount))

\* the three buffers of the call hold the vectors of next
BuffersAre(next) ==
    /\ RawOf(band.bandCount) = next.raw
    /\ PeaksOf(band.bandCount) = next.peaks
    /\ SmoothedOf(band.bandCount) = next.smoothed

\* C19: a frame and the frame that differs from it only in that its values
\* below -80 dB, minus infinity included, are raised to -80 dB give identical
\* raw, peak and smoothed values
FloorAtMinus80 ==
    LoopReturned
        => BuffersAre(FirstCall(band.bandCount, band.p, Floored(band.frame),
                                band.rate))

\* a frame at -100 dB with one bin at -20 dB: the band that holds the bin has
\* risen, as it does over a background of -80 dB
FloorAtMinus80Witness ==
    /\ LoopReturned
    /\ band.frame.base < 0 - 80
    /\ Floored(band.frame) # band.frame
    /\ \E j \in LoopBands :
          /\ band.frame.peakBin \in band.windows[j]
          /\ RawOf(band.bandCount)[j] > 0
          /\ PeaksOf(band.bandCount)[j] > 0
          /\ SmoothedOf(band.bandCount)[j] > 0

\* the five steps as the documentation orders them, on a finite energy e >= 0
StatedGainFloor(e, p) == Max2(0, Mul(e, p.gain) - p.noiseFloor)
StatedCompress(e, p)  == IF p.compress = Unit THEN e ELSE MathPow(e, p.compress)
StatedLimiter(e) ==
    IF e > 800000
    THEN 800000 + Div(e - 800000, Unit + 2 * (e - 800000))
    ELSE e
StatedClamp(e) == Min2(Unit, Max2(0, e))
StatedRaw(e, p) ==
    StatedClamp(StatedLimiter(StatedCompress(StatedGainFloor(e, p), p)))

\* energies around the knee of the limiter
LimiterSamples ==
    {0, 1, 15000, 400000, 799999, 800000, 800001, 850000, 999999, Unit,
     1258000, 2 * Unit, 10 * Unit}

\* the pass for band.j has stored raw[j] and moved on: its locals are still
\* those of that pass
JustStored == band.pc \in {"target", "done"} /\ band.j >= 1

\* C20: raw[j] is the tilted and tamed energy taken through gain, noise
\* floor, compression, limiter and clamp in that order; the limiter leaves
\* values up to 0.8 as they are and never decreases when its input grows
ShapingInOrder ==
    JustStored
        => /\ RawOf(band.bandCount)[band.j] = StatedRaw(band.tamed, band.p)
           /\ band.floored = StatedGainFloor(band.tamed, band.p)
           /\ band.limited = StatedLimiter(band.compressed)
           /\ band.compressed <= 800000 => band.limited = band.compressed
           /\ \A e \in LimiterSamples :
                 /\ e <= 800000 => Limiter(e) = e
                 /\ e <= band.compressed => Limiter(e) <= band.limited
                 /\ e >= band.compressed => Limiter(e) >= band.limited

\* a band above the knee and below the clamp: the noise floor has been taken
\* off after the gain, the limiter has pulled the value down, the clamp has
\* left it alone
ShapingInOrderWitness ==
    /\ JustStored
    /\ band.tamed > 0
    /\ band.floored = Mul(band.tamed, band.p.gain) - band.p.noiseFloor
    /\ band.compressed > 800000
    /\ band.limited > 800000
    /\ band.limited < band.compressed
    /\ band.limited < Unit
    /\ RawOf(band.bandCount)[band.j] = band.limited

\* the peak and smoothed value the last finished call for bandCount b left in
\* band j, zero when there was none
PersistedPeak(b, j) ==
    IF b \in DOMAIN band.left THEN band.left[b].peaks[j] ELSE 0
PersistedSmoothed(b, j) ==
    IF b \in DOMAIN band.left THEN band.left[b].smoothed[j] ELSE 0

\* the envelope statement of band j has run, its smoothing statement has not
AfterEnvelope == band.pc = "smooth"

\* peak[j] after the envelope statement, given raw[j], the persisted peak[j]
\* and the options
PeakFollows(raw, was, peak, p) ==
    /\ raw > was => peak = was + Mul(raw - was, p.attack)
    /\ raw <= was => peak = was + Mul(raw - was, p.release)
    /\ raw = was => peak = was

\* C21: in a ready call peak[j] becomes peak[j] + (raw[j] - peak[j]) * attack
\* when raw[j] is greater than the peak[j] the previous call for the same
\* bandCount left, and peak[j] + (raw[j] - peak[j]) * release otherwise; it is
\* unchanged when raw[j] equals it
EnvelopeTowardRaw ==
    AfterEnvelope
    => PeakFollows(RawOf(band.bandCount)[band.j + 1],
                   PersistedPeak(band.bandCount, band.j + 1),
                   PeaksOf(band.bandCount)[band.j + 1],
                   Destructure(band.params))

\* a band falls below the peak an earlier call left, with a call for another
\* bandCount made in between, and the peak moves by the release fraction
EnvelopeTowardRawWitness ==
    /\ AfterEnvelope
    /\ band.params = Plain
    /\ Cardinality(DOMAIN band.left) = 2
    /\ RawOf(band.bandCount)[band.j + 1]
         < PersistedPeak(band.bandCount, band.j + 1)
    /\ PeaksOf(band.bandCount)[band.j + 1]
         < PersistedPeak(band.bandCount, band.j + 1)
    /\ PeaksOf(band.bandCount)[band.j + 1]
         > RawOf(band.bandCount)[band.j + 1]

\* the smoothing statement of band j has run; band.j counts the bands done
AfterSmooth == band.pc \in {"envelope", "idle"} /\ band.j > 0

\* C22: in a ready call smoothed[j] is advanced by
\* (peak[j] - smoothed[j]) * (1 - smoothing) with the peak[j] the same call
\* has already updated: it is untouched while the envelope statement runs, and
\* afterwards it is a function of the new peak[j], the old smoothed[j] and
\* smoothing alone
SmoothedAfterEnvelope ==
    /\ AfterEnvelope
       => SmoothedOf(band.bandCount)[band.j + 1]
            = PersistedSmoothed(band.bandCount, band.j + 1)
    /\ AfterSmooth
       => SmoothedOf(band.bandCount)[band.j]
            = band.smoothedWas
              + Mul(PeaksOf(band.bandCount)[band.j] - band.smoothedWas,
                    Unit - Destructure(band.params).smoothing)

\* a band whose peak the envelope statement has just moved, and whose
\* smoothed value then moved part of the way to the new peak
SmoothedAfterEnvelopeWitness ==
    /\ AfterSmooth
    /\ band.params = Plain
    /\ PeaksOf(band.bandCount)[band.j] # band.peakWas
    /\ band.peakWas # band.smoothedWas
    /\ SmoothedOf(band.bandCount)[band.j] # band.smoothedWas
    /\ SmoothedOf(band.bandCount)[band.j] # PeaksOf(band.bandCount)[band.j]

\* x lies between a and b, the ends included
Between(a, b, x) == Min2(a, b) <= x /\ x <= Max2(a, b)

\* attack, release and smoothing all in [0, 1]
EnvelopeInUnit(p) ==
    /\ 0 <= p.attack /\ p.attack <= Unit
    /\ 0 <= p.release /\ p.release <= Unit
    /\ 0 <= p.smoothing /\ p.smoothing <= Unit

\* C24: with attack, release and smoothing in [0, 1] a ready call overshoots
\* nowhere: the new peak[j] lies between the old peak[j] and raw[j], the new
\* smoothed[j] between the old smoothed[j] and the new peak[j], ends included
NoOvershoot ==
    EnvelopeInUnit(Destructure(band.params))
    => /\ AfterEnvelope
          => Between(PersistedPeak(band.bandCount, band.j + 1),
                     RawOf(band.bandCount)[band.j + 1],
                     PeaksOf(band.bandCount)[band.j + 1])
       /\ AfterSmooth
          => Between(band.smoothedWas, PeaksOf(band.bandCount)[band.j],
                     SmoothedOf(band.bandCount)[band.j])

\* with attack = release = 1 and smoothing = 0 a falling band lands on the
\* ends: the peak on raw[j], the smoothed value on the peak
NoOvershootWitness ==
    /\ AfterSmooth
    /\ band.params = Snap
    /\ band.peakWas > RawOf(band.bandCount)[band.j]
    /\ PeaksOf(band.bandCount)[band.j] = RawOf(band.bandCount)[band.j]
    /\ SmoothedOf(band.bandCount)[band.j] = PeaksOf(band.bandCount)[band.j]
    /\ band.smoothedWas > PeaksOf(band.bandCount)[band.j]

\* the source has settled and every band's smoothed value is within tol of
\* its raw value
SettledWithin(tol) ==
    /\ source.phase = "steady"
    /\ source.calls > 0
    /\ \A j \in 1..StepCount :
          Abs(SmoothedOf(StepCount)[j] - RawOf(StepCount)[j]) <= tol

RestsBeforeBound ==
    [][source.phase = "steady" /\ source.calls >= MaxSteady - 10 =>
          /\ _smoothedBands' = _smoothedBands
          /\ _peakBands' = _peakBands
          /\ heap' = heap]_vars

\* the exponent of section 4.1 step 5 for a band at position bandPos
StatedGamma(bandPos, p) ==
    Unit + Mul(Mul(Unit - Div(bandPos, p.bassTameRange), p.bassTame), 800000)

\* the bass taming statement of band j has run
AfterTame == band.pc \in {"gain", "compress", "limit", "clamp", "store"}

\* band j has been stored: band.j counts the bands done
JustTamed == band.pc \in {"target", "done"} /\ band.j > 0

\* raw[j] of the band stored last had bassTame been bt
RawWithTame(bt) ==
    RawBand(band.j - 1, band.bandCount, [band.p EXCEPT !.bassTame = bt],
            band.frame, band.rate)

\* C23: bass taming applies only to the bands at a position strictly below
\* bassTameRange, with the exponent 1 + (1 - bandPos/bassTameRange) * bassTame
\* * 0.8: bassTame does not change raw[j] of a band at or above bassTameRange,
\* the exponent is largest at band 0 and falls toward 1 at the boundary, and
\* with bassTameRange = 0 no band is tamed
TamesBelowRange ==
    /\ AfterTame
       => /\ band.t < band.p.bassTameRange
             => /\ band.tamed = MathPow(band.tilted, StatedGamma(band.t, band.p))
                /\ StatedGamma(band.t, band.p) <= StatedGamma(0, band.p)
                /\ StatedGamma(band.t, band.p) >= Unit
                /\ \A i \in 0..band.j :
                      StatedGamma(band.t, band.p)
                        <= StatedGamma(BandT(i, band.bandCount), band.p)
          /\ band.t >= band.p.bassTameRange => band.tamed = band.tilted
          /\ band.p.bassTameRange = 0 => band.tamed = band.tilted
    /\ (JustTamed /\ BandT(band.j - 1, band.bandCount) >= band.p.bassTameRange)
       => \A bt \in {0, 500000, 1000000} :
             RawWithTame(bt) = RawOf(band.bandCount)[band.j]

\* of eight bands with bassTameRange = 0.5 the third is tamed, by an exponent
\* between 1 and that of band 0, and its energy changed
TamesBelowRangeWitness ==
    /\ AfterTame
    /\ band.p.bassTameRange = 500000
    /\ band.bandCount = 8 /\ band.j = 2
    /\ band.tamed # band.tilted
    /\ StatedGamma(band.t, band.p) > Unit
    /\ StatedGamma(band.t, band.p) < StatedGamma(0, band.p)

\* every value of the buffers of every bandCount is a finite number
AllFinite ==
    \A b \in DOMAIN _rawBands :
        \A j \in 1..b :
            /\ IsFinite(RawOf(b)[j])
            /\ IsFinite(PeaksOf(b)[j])
            /\ IsFinite(SmoothedOf(b)[j])

\* C26: with valid frequency bounds and bandCount > 0, whatever the other
\* options, no NaN and no infinite value is stored in raw, peak or smoothed
NoNaNStored ==
    (\A q \in OptionSets : ValidBounds(Destructure(q))) => AllFinite

\* C27: in every interleaving of init() calls with getLogBands calls,
\* isInitialized implies that the analyser the instance holds has a source
\* connected, and a ready call never reads from an analyser without one
ReadyHasSource ==
    /\ isInitialized => analyser \in connected
    /\ (LastGet /\ call.ready) => analyser \in connected

\* C28: after any sequence of loadVisualizer calls (valid ids, unknown ids,
\* WebGL2 unavailable) interleaved with frames, update and render are called
\* only on a visualizer whose init was called more recently than its dispose,
\* and the previous visualizer is disposed before the next one's init
LifecycleInOrder ==
    /\ ~app.overlap
    /\ ~app.stale
    /\ Cardinality(app.live) <= 1
    /\ app.pc \in {"update", "render"} => app.currentVisualizer \in app.live
    /\ app.currentVisualizer # "null" => app.live = {app.currentVisualizer}

\* a second load, made after a WebGL2 visualizer was refused, put a 2D
\* visualizer in place and a frame has updated and rendered it
LifecycleInOrderWitness ==
    /\ app.loads = 2
    /\ app.refused
    /\ app.currentVisualizer = "spiral"
    /\ app.live = {"spiral"}
    /\ app.updated /\ app.rendered

\* the particles of the system: the slots below particleCount
Alive(sys) == {sys.slots[k] : k \in 1..sys.particleCount}

AliveIds(sys) == {slot.id : slot \in Alive(sys)}

CountInRange ==
    particles.pc = "ready" =>
        /\ 0 <= particles.particleCount
        /\ particles.particleCount <= particles.maxParticles

SpawnOnFull ==
    /\ particles.pc = "ready"
    /\ particles'.spawns = particles.spawns + 1
    /\ particles.particleCount >= particles.maxParticles

\* C29: after any sequence of spawn and update calls particleCount lies
\* between 0 and maxParticles, and a spawn on a full system changes neither
\* the particle data nor particleCount.
CountBoundedFullInert ==
    /\ []CountInRange
    /\ [][SpawnOnFull =>
            /\ particles'.slots = particles.slots
            /\ particles'.particleCount = particles.particleCount]_vars

\* three spawns on a system of two, before any update: the third found it full
CountBoundedFullInertWitness ==
    /\ particles.pc = "ready"
    /\ particles.maxParticles = 2
    /\ particles.particleCount = 2
    /\ particles.spawns = 3
    /\ particles.updates = 0

UpdateCall ==
    /\ particles.pc = "ready"
    /\ particles'.updates = particles.updates + 1

\* C30: update(dt) takes dt off the lifetime of every particle alive at the
\* start of the call exactly once, one copied into a freed slot included;
\* afterwards every remaining particle has lifetime > 0, and the particles
\* removed are exactly those whose lifetime dropped to 0 or below.
UpdateAgesOnce ==
    [][UpdateCall =>
        /\ AliveIds(particles') \subseteq AliveIds(particles)
        /\ Cardinality(AliveIds(particles')) = particles'.particleCount
        /\ \A was \in Alive(particles) :
            IF was.lifetime - particles'.deltaTime <= 0
            THEN was.id \notin AliveIds(particles')
            ELSE \E now \in Alive(particles') :
                    /\ now.id = was.id
                    /\ now.lifetime = was.lifetime - particles'.deltaTime
        /\ \A now \in Alive(particles') : now.lifetime > 0]_vars

\* one update of half a second on three particles: the first expired, the
\* third was copied into its slot and aged once, the second aged in place
UpdateAgesOnceWitness ==
    /\ particles.pc = "ready"
    /\ particles.updates = 1
    /\ particles.deltaTime = 500000
    /\ particles.particleCount = 2
    /\ particles.slots[1].id = 3
    /\ particles.slots[1].lifetime = 1500000
    /\ particles.slots[2].id = 2
    /\ particles.slots[2].lifetime = 500000

====
